---- MODULE Spec2Model ----
(***************************************************************************)
(* Model of the turn/buffer/relay core of copilot-agent-console:           *)
(*   - ResponseBuffer and ResponseBufferManager (services/response_buffer) *)
(*   - the interactive runner run_agent around send_message_background     *)
(*     (routers/sessions.py, services/copilot_service.py)                  *)
(*   - the two SSE relays: send_message.generate_events and                *)
(*     resume_response_stream.generate_events (routers/sessions.py)        *)
(*                                                                         *)
(* Scheduling is asyncio's: one step of a task or generator runs from one  *)
(* suspension point (await / yield) to the next without interleaving, so   *)
(* every action below is one such run-to-suspension step.                  *)
(***************************************************************************)
EXTENDS Integers, Sequences, FiniteSets, TLC

\* ---------------------------------------------------------------- bounds
MaxTurns == 2
MaxEvents == 1
MaxResumes == 1
DeepEvents == 2

\* ------------------------------------------------------------ input sets
Sessions == {"s1"}

\* session_service.create_session draws a fresh uuid4 for every call: the
\* i-th submission that gets that far owns the i-th id.
RunSessionIds == <<"h1", "h2", "h3", "h4">>

AllSessions == Sessions \cup {RunSessionIds[i] : i \in 1..Len(RunSessionIds)}

\* A chunk's text is a sequence of characters; "" is the empty sequence.
Contents == {<< >>, <<" ">>, <<"a">>}

\* Events that CopilotService.send_message yields to send_message_background.
BackendEvents ==
    [event : {"delta"}, data : Contents]
      \cup [event : {"step"}, data : {<<"s">>}]
      \cup [event : {"usage_info"}, data : {<<"u1">>}]
      \cup [event : {"pending_messages", "turn_done"}, data : {<< >>}]

\* Outcome of storage_service.load_session + the name_set test in run_agent.
MetaOutcomes == {"name_set", "not_set", "raises"}

\* Outcome of copilot_service.list_sessions as seen by the auto-name loop.
ListOutcomes == {"summary", "no_summary", "raises"}

\* Outcome of session_service.get_session / storage_service.save_session.
SaveOutcomes == {"saved", "raises"}

NewName == "T"

VARIABLES
    buffers,      \* every ResponseBuffer ever created, by creation index
    termCalls,    \* per buffer: number of complete()/fail() calls so far
    mgr_buffers,  \* ResponseBufferManager._buffers : session -> index or 0
    mgr_tasks,    \* ResponseBufferManager._tasks   : session -> index or 0
    tasks,        \* the run_agent task of each buffer (same index)
    relays        \* every generate_events generator ever started

\* TaskRunnerService (services/task_runner_service.py) and the stored
\* task-run records (services/task_run_storage_service.py).
VARIABLES
    runs,           \* every submission: its _execute_run task and TaskRun
    stored,         \* per submission: the record on disk
    max_concurrent, \* the configured limit
    semaphore,      \* asyncio.Semaphore._value: free slots
    abort_calls     \* abort_run calls so far: <<[id, ret]>>

runVars == <<runs, stored, max_concurrent, semaphore, abort_calls>>

\* The handle pool of CopilotService (services/copilot_service.py) and the
\* stored working directory of each session.
VARIABLES
    clients,      \* CopilotService._session_clients : session -> handle or 0
    handles,      \* every SessionClient ever created, by creation index
    lock,         \* CopilotService._lock: 0, or the turn that holds it
    sweep,        \* the _idle_cleanup_loop task
    stopping,     \* destroy_session_client calls suspended in client.stop()
    session_cwd,  \* stored session metadata: session -> cwd
    turn_client   \* per turn: the cwd read by the router, the handle in use

poolVars == <<clients, handles, lock, sweep, stopping, session_cwd,
              turn_client>>

\* The stored session metadata besides cwd, the disconnect requests that
\* wait for the pool lock, and the chunks a caller of the buffer has still
\* to append.
VARIABLES
    session_meta, \* stored session metadata: session -> name and config
    disconnects,  \* POST /disconnect calls waiting in destroy_session_client
    script        \* calls made by hand: [todo, done] sequences of arguments

auxVars == <<session_meta, disconnects, script>>

VARIABLES
    shutdown,     \* CopilotService.stop(): its position and what is left
    stream        \* the locals of one send_message generator and its queue

lateVars == <<shutdown, stream>>

\* Everything outside the turn/buffer/relay core.
extVars == <<runVars, poolVars, auxVars, lateVars>>

vars == <<buffers, termCalls, mgr_buffers, mgr_tasks, tasks, relays,
          extVars>>

\* ------------------------------------------------------- ResponseBuffer
\* age is now - completed_at in seconds, -1 while completed_at is None.
ResponseBuffer(sid) ==
    [session_id |-> sid, status |-> "running", chunks |-> << >>,
     steps |-> << >>, usage_info |-> << >>, notifications |-> << >>,
     error |-> "", updated_session_name |-> "", ev |-> FALSE, age |-> -1]

\* An add_chunk that puts the chunk in front.
add_chunk_prepends(buf, content) ==
    [buf EXCEPT !.chunks = <<content>> \o @, !.ev = TRUE]

add_chunk(buf, content) ==
    [buf EXCEPT !.chunks = Append(@, content), !.ev = TRUE]

add_step(buf, step) ==
    [buf EXCEPT !.steps = Append(@, step), !.ev = TRUE]

add_usage_info(buf, usage) ==
    [buf EXCEPT !.usage_info = usage, !.ev = TRUE]

add_notification(buf, event) ==
    [buf EXCEPT !.notifications = Append(@, event), !.ev = TRUE]

complete(buf) ==
    [buf EXCEPT !.status = "completed", !.age = 0, !.ev = TRUE]

\* A fail that also discards what was produced so far.
fail_discards(buf, err) ==
    [buf EXCEPT !.status = "error", !.error = err, !.age = 0, !.ev = TRUE,
                !.chunks = << >>, !.steps = << >>]

fail(buf, err) ==
    [buf EXCEPT !.status = "error", !.error = err, !.age = 0, !.ev = TRUE]

RECURSIVE Join(_)
Join(seqs) ==
    IF seqs = << >> THEN << >> ELSE Head(seqs) \o Join(Tail(seqs))

get_full_content(buf) == Join(buf.chunks)

is_stale(buf, max_age_seconds) ==
    IF buf.status = "running" THEN FALSE
    ELSE IF buf.age = -1 THEN FALSE
    ELSE buf.age > max_age_seconds

\* str.strip() leaves the empty string iff every character is whitespace.
StripIsEmpty(content) ==
    \A i \in 1..Len(content) : content[i] = " "


\* ------------------------------------------------ ResponseBufferManager
\* asyncio.Task.cancel(): no effect on a finished task, otherwise the
\* CancelledError is thrown into the coroutine at its next step.
TaskCancel(tk) ==
    IF tk.pc = "done" THEN tk ELSE [tk EXCEPT !.must_cancel = TRUE]

\* create_buffer: cancel and forget the registered task, forget the
\* registered buffer, install a fresh RUNNING buffer.  Yields the new
\* <<buffers, tasks, _buffers, _tasks>>; the old buffer object itself is
\* not touched.
create_buffer(sid) ==
    LET old == mgr_tasks[sid]
        n   == Len(buffers) + 1
    IN  [bufs   |-> Append(buffers, ResponseBuffer(sid)),
         tsks   |-> IF old # 0
                      THEN [tasks EXCEPT ![old] = TaskCancel(@)]
                      ELSE tasks,
         m_bufs |-> [mgr_buffers EXCEPT ![sid] = n],
         m_tsks |-> [mgr_tasks EXCEPT ![sid] = 0],
         new    |-> n]

register_task(m_tsks, sid, t) == [m_tsks EXCEPT ![sid] = t]

get_buffer(sid) == mgr_buffers[sid]

\* remove_buffer: pop buffer and task, cancel the task if it is not done.
remove_buffer(sid) ==
    /\ mgr_buffers[sid] # 0 \/ mgr_tasks[sid] # 0
    /\ mgr_buffers' = [mgr_buffers EXCEPT ![sid] = 0]
    /\ mgr_tasks' = [mgr_tasks EXCEPT ![sid] = 0]
    /\ tasks' = IF mgr_tasks[sid] # 0
                  THEN [tasks EXCEPT ![mgr_tasks[sid]] = TaskCancel(@)]
                  ELSE tasks
    /\ UNCHANGED <<buffers, termCalls, relays>>

\* A get_status that reports every registered buffer as active.
get_status_registered(sid) ==
    LET b == mgr_buffers[sid]
    IN  IF b = 0
          THEN [active |-> FALSE]
          ELSE [active |-> TRUE,
                status |-> buffers[b].status,
                chunks_count |-> Len(buffers[b].chunks),
                steps_count |-> Len(buffers[b].steps),
                error |-> buffers[b].error]

get_status(sid) ==
    LET b == mgr_buffers[sid]
    IN  IF b = 0
          THEN [active |-> FALSE]
          ELSE [active |-> buffers[b].status = "running",
                status |-> buffers[b].status,
                chunks_count |-> Len(buffers[b].chunks),
                steps_count |-> Len(buffers[b].steps),
                error |-> buffers[b].error]

\* sum(1 for b in self._buffers.values() if b.status == RUNNING), over
\* the keys still to visit.
RECURSIVE CountRunning(_)
CountRunning(sids) ==
    IF sids = {} THEN 0
    ELSE LET sid == CHOOSE x \in sids : TRUE
             one == IF /\ mgr_buffers[sid] # 0
                       /\ buffers[mgr_buffers[sid]].status = "running"
                      THEN 1 ELSE 0
         IN  one + CountRunning(sids \ {sid})

get_active_count == CountRunning(DOMAIN mgr_buffers)

\* ResponseBufferManager.__init__: _buffer_ttl_seconds; _cleanup_loop
\* sleeps one period between two sweeps.
BufferTtlSeconds == 300
BufferSweepSeconds == 60

\* One period passes: every registered buffer with a completion time gets
\* older (the age of an unregistered buffer is never read).
buffer_time_passes ==
    LET registered(b) == mgr_buffers[buffers[b].session_id] = b
        ages(b) == /\ registered(b)
                   /\ buffers[b].age # -1
                   /\ buffers[b].age <= BufferTtlSeconds
    IN  /\ \E b \in 1..Len(buffers) : ages(b)
        /\ buffers' = [b \in 1..Len(buffers) |->
                         IF ages(b)
                           THEN [buffers[b] EXCEPT
                                    !.age = @ + BufferSweepSeconds]
                           ELSE buffers[b]]
        /\ UNCHANGED <<termCalls, mgr_buffers, mgr_tasks, tasks, relays>>

\* A sweep that removes every terminal buffer, whatever its age.
cleanup_terminal_buffers ==
    LET to_remove == {sid \in DOMAIN mgr_buffers :
                        /\ mgr_buffers[sid] # 0
                        /\ buffers[mgr_buffers[sid]].status # "running"}
    IN  /\ to_remove # {}
        /\ mgr_buffers' = [sid \in DOMAIN mgr_buffers |->
                             IF sid \in to_remove THEN 0 ELSE mgr_buffers[sid]]
        /\ mgr_tasks' = [sid \in DOMAIN mgr_buffers |->
                           IF sid \in to_remove THEN 0 ELSE mgr_tasks[sid]]
        /\ tasks' = [t \in 1..Len(tasks) |->
                       IF \E sid \in to_remove : mgr_tasks[sid] = t
                         THEN TaskCancel(tasks[t]) ELSE tasks[t]]
        /\ UNCHANGED <<buffers, termCalls, relays>>

\* _cleanup_stale_buffers: the stale buffers are collected under the
\* lock and remove_buffer is awaited for each.  The manager's lock is
\* never held across an await, so no acquisition suspends and the whole
\* sweep is one step.
cleanup_stale_buffers ==
    LET to_remove == {sid \in DOMAIN mgr_buffers :
                        /\ mgr_buffers[sid] # 0
                        /\ is_stale(buffers[mgr_buffers[sid]],
                                    BufferTtlSeconds)}
    IN  /\ to_remove # {}
        /\ mgr_buffers' = [sid \in DOMAIN mgr_buffers |->
                             IF sid \in to_remove THEN 0 ELSE mgr_buffers[sid]]
        /\ mgr_tasks' = [sid \in DOMAIN mgr_buffers |->
                           IF sid \in to_remove THEN 0 ELSE mgr_tasks[sid]]
        /\ tasks' = [t \in 1..Len(tasks) |->
                       IF \E sid \in to_remove : mgr_tasks[sid] = t
                         THEN TaskCancel(tasks[t]) ELSE tasks[t]]
        /\ UNCHANGED <<buffers, termCalls, relays>>

\* ----------------------------------------------------------- the relays
Event(name, data, n) == [event |-> name, data |-> data, n |-> n]

NewRelay(b, kind, from_chunk, from_step, status) ==
    [buf |-> b, kind |-> kind,
     from_chunk |-> from_chunk, from_step |-> from_step,
     chunks_sent |-> from_chunk, steps_sent |-> from_step,
     notifications_sent |-> 0, usage_info_sent |-> FALSE,
     phase |-> "chunks", out |-> << >>,
     attached_status |-> status]

\* ------------------------------------------------------- send_message
\* POST /{session_id}/messages from create_buffer to the return of the
\* EventSourceResponse: no suspension point lies in between (the manager's
\* lock is never held across an await, so acquiring it never suspends).
send_message(sid) ==
    /\ LET c == create_buffer(sid)
       IN  /\ buffers' = c.bufs
           /\ termCalls' = Append(termCalls, 0)
           /\ mgr_buffers' = c.m_bufs
           /\ tasks' = Append(c.tsks,
                  [pc |-> "created", must_cancel |-> FALSE, nevents |-> 0,
                   outcome |-> "pending"])
           /\ mgr_tasks' = register_task(c.m_tsks, sid, c.new)
           /\ relays' = Append(relays,
                  NewRelay(c.new, "send", 0, 0, "running"))


\* ------------------------------------------- send_message_background
\* Body of the `async for evt in self.send_message(...)` loop.
on_stream_event(buf, evt) ==
    IF evt.event = "delta"
      THEN IF evt.data # << >> THEN add_chunk(buf, evt.data) ELSE buf
    ELSE IF evt.event = "step" THEN add_step(buf, evt.data)
    ELSE IF evt.event = "usage_info" THEN add_usage_info(buf, evt.data)
    ELSE IF evt.event \in {"pending_messages", "turn_done"}
      THEN add_notification(buf, Event(evt.event, evt.data, 0))
    ELSE buf

TaskDone(tk, outcome) ==
    [tk EXCEPT !.pc = "done", !.must_cancel = FALSE, !.outcome = outcome]

\* ------------------------------------------------------------ run_agent
\* First step of the task: the coroutine body starts and suspends inside
\* send_message_background's async-for.
run_agent_start(t) ==
    /\ tasks[t].pc = "created" /\ ~tasks[t].must_cancel
    /\ tasks' = [tasks EXCEPT ![t].pc = "streaming"]
    /\ UNCHANGED <<buffers, termCalls, mgr_buffers, mgr_tasks, relays>>

\* A task cancelled before its first step: asyncio throws CancelledError
\* into the unstarted coroutine, so no line of run_agent (neither its try
\* nor its except) ever runs.
run_agent_cancelled_unstarted(t) ==
    /\ tasks[t].pc = "created" /\ tasks[t].must_cancel
    /\ tasks' = [tasks EXCEPT ![t] = TaskDone(@, "cancelled")]
    /\ UNCHANGED <<buffers, termCalls, mgr_buffers, mgr_tasks, relays>>

\* Number of backend events consumed so far by the first n tasks.
RECURSIVE TotalEvents(_)
TotalEvents(n) ==
    IF n = 0 THEN 0 ELSE tasks[n].nevents + TotalEvents(n - 1)

\* One backend event arrives and is appended to the buffer.
stream_event(t, evt) ==
    /\ tasks[t].pc = "streaming" /\ ~tasks[t].must_cancel
    /\ buffers' = [buffers EXCEPT ![t] = on_stream_event(@, evt)]
    /\ tasks' = [tasks EXCEPT ![t].nevents = @ + 1]
    /\ UNCHANGED <<termCalls, mgr_buffers, mgr_tasks, relays>>

\* The stream raises: send_message_background fails the buffer and
\* re-raises, run_agent's `except Exception` fails it again.
stream_raises(t) ==
    /\ tasks[t].pc = "streaming" /\ ~tasks[t].must_cancel
    /\ buffers' = [buffers EXCEPT ![t] = fail(fail(@, "boom"), "boom")]
    /\ termCalls' = [termCalls EXCEPT ![t] = @ + 2]
    /\ tasks' = [tasks EXCEPT ![t] = TaskDone(@, "returned")]
    /\ UNCHANGED <<mgr_buffers, mgr_tasks, relays>>

\* Tail of run_agent from buffer.complete() on.  When load_session raised,
\* stored_meta was never bound: the session_name expression after
\* complete() raises UnboundLocalError, which `except Exception` turns
\* into buffer.fail().
finish_turn(t, title, meta_bound) ==
    LET named == IF title # ""
                   THEN [buffers[t] EXCEPT !.updated_session_name = title]
                   ELSE buffers[t]
        crash == ~meta_bound /\ named.updated_session_name = ""
    IN  /\ buffers' = [buffers EXCEPT ![t] =
                IF crash THEN fail(complete(named), "UnboundLocalError")
                         ELSE complete(named)]
        /\ termCalls' = [termCalls EXCEPT ![t] = @ + (IF crash THEN 2 ELSE 1)]
        /\ tasks' = [tasks EXCEPT ![t] = TaskDone(@, "returned")]
        /\ UNCHANGED <<mgr_buffers, mgr_tasks, relays>>

\* send_message_background returns; run_agent loads the stored metadata.
stream_finished(t, meta) ==
    /\ tasks[t].pc = "streaming" /\ ~tasks[t].must_cancel
    /\ IF meta = "not_set"
         THEN /\ tasks' = [tasks EXCEPT ![t].pc = "list_sessions"]
              /\ UNCHANGED <<buffers, termCalls, mgr_buffers, mgr_tasks,
                             relays>>
         ELSE finish_turn(t, "", meta = "name_set")

\* `await copilot_service.list_sessions()` returns inside the auto-name try.
list_sessions_returns(t, res) ==
    /\ tasks[t].pc = "list_sessions" /\ ~tasks[t].must_cancel
    /\ IF res = "summary"
         THEN /\ tasks' = [tasks EXCEPT ![t].pc = "get_session"]
              /\ UNCHANGED <<buffers, termCalls, mgr_buffers, mgr_tasks,
                             relays>>
         ELSE finish_turn(t, "", TRUE)

\* `await session_service.get_session()` returns; the name is saved and
\* written to the buffer, then the buffer is completed.
get_session_returns(t, res) ==
    /\ tasks[t].pc = "get_session" /\ ~tasks[t].must_cancel
    /\ finish_turn(t, IF res = "saved" THEN NewName ELSE "", TRUE)

\* A runner that records the cancellation in the buffer and then goes on
\* with its stream.
run_agent_cancelled_goes_on(t) ==
    /\ tasks[t].pc \in {"streaming", "list_sessions", "get_session"}
    /\ tasks[t].must_cancel
    /\ buffers' = [buffers EXCEPT ![t] = fail(@, "Task was cancelled")]
    /\ termCalls' = [termCalls EXCEPT ![t] = @ + 1]
    /\ tasks' = [tasks EXCEPT ![t].pc = "streaming",
                              ![t].must_cancel = FALSE]
    /\ UNCHANGED <<mgr_buffers, mgr_tasks, relays>>

\* CancelledError delivered at a suspension point of the started task.
\* Inside the stream it is caught twice (send_message_background, then
\* run_agent); inside auto-naming only run_agent catches it.  run_agent
\* does not re-raise.
run_agent_cancelled(t) ==
    /\ tasks[t].pc \in {"streaming", "list_sessions", "get_session"}
    /\ tasks[t].must_cancel
    /\ buffers' = [buffers EXCEPT ![t] =
          IF tasks[t].pc = "streaming"
            THEN fail(fail(@, "Task was cancelled"), "Task was cancelled")
            ELSE fail(@, "Task was cancelled")]
    /\ termCalls' = [termCalls EXCEPT ![t] =
          @ + (IF tasks[t].pc = "streaming" THEN 2 ELSE 1)]
    /\ tasks' = [tasks EXCEPT ![t] = TaskDone(@, "returned")]
    /\ UNCHANGED <<mgr_buffers, mgr_tasks, relays>>


\* ------------------------------------------------------ generate_events
\* A generator is suspended either at a yield inside one of its loops
\* (phase = the loop), or inside wait_for_update (phase "wait").  On
\* resumption it runs on from that place to its next yield or await:
\* rank is the first loop it can still enter in this pass.
PhaseRank(phase) ==
    CASE phase = "chunks" -> 1
      [] phase = "steps" -> 2
      [] phase = "notifications" -> 3
      [] phase = "usage" -> 4
      [] OTHER -> 1

Yield(rel, phase, ev) ==
    [rel EXCEPT !.phase = phase, !.out = Append(@, ev)]

\* The `if buffer.status == COMPLETED ... elif ERROR ...` block of the
\* initial stream; the generator ends after the yield.  Phase "wait" when
\* the buffer is still running.
send_check_done(rel, buf) ==
    IF buf.status = "completed"
      THEN LET content == get_full_content(buf)
           IN  IF ~StripIsEmpty(content)
                 THEN Yield(rel, "ended",
                        Event("done",
                              IF buf.updated_session_name # ""
                                THEN <<buf.updated_session_name>>
                                ELSE << >>,
                              Len(content)))
                 ELSE Yield(rel, "ended",
                        Event("error", <<"No response content">>, 0))
    ELSE IF buf.status = "error"
      THEN Yield(rel, "ended", Event("error", <<buf.error>>, 0))
    ELSE [rel EXCEPT !.phase = "wait"]

\* send_message.generate_events, one resumption.
send_generate_events(rel, buf) ==
    LET rank == PhaseRank(rel.phase)
    IN  IF rank <= 1 /\ rel.chunks_sent < Len(buf.chunks)
          THEN [Yield(rel, "chunks",
                      Event("delta", buf.chunks[rel.chunks_sent + 1], 0))
                  EXCEPT !.chunks_sent = @ + 1]
        ELSE IF rank <= 2 /\ rel.steps_sent < Len(buf.steps)
          THEN [Yield(rel, "steps",
                      Event("step", buf.steps[rel.steps_sent + 1], 0))
                  EXCEPT !.steps_sent = @ + 1]
        ELSE IF rank <= 3
                /\ rel.notifications_sent < Len(buf.notifications)
          THEN [Yield(rel, "notifications",
                      buf.notifications[rel.notifications_sent + 1])
                  EXCEPT !.notifications_sent = @ + 1]
        ELSE IF rank <= 3 /\ buf.usage_info # << >> /\ ~rel.usage_info_sent
          THEN [Yield(rel, "usage", Event("usage_info", buf.usage_info, 0))
                  EXCEPT !.usage_info_sent = TRUE]
        ELSE send_check_done(rel, buf)

\* The status block of the resumed stream: no session name in "done".
resume_check_done(rel, buf) ==
    IF buf.status = "completed"
      THEN LET content == get_full_content(buf)
           IN  IF ~StripIsEmpty(content)
                 THEN Yield(rel, "ended",
                            Event("done", << >>, Len(content)))
                 ELSE Yield(rel, "ended",
                        Event("error", <<"No response content">>, 0))
    ELSE IF buf.status = "error"
      THEN Yield(rel, "ended", Event("error", <<buf.error>>, 0))
    ELSE [rel EXCEPT !.phase = "wait"]

\* resume_response_stream.generate_events, one resumption: chunks and
\* steps only.
resume_generate_events(rel, buf) ==
    LET rank == PhaseRank(rel.phase)
    IN  IF rank <= 1 /\ rel.chunks_sent < Len(buf.chunks)
          THEN [Yield(rel, "chunks",
                      Event("delta", buf.chunks[rel.chunks_sent + 1], 0))
                  EXCEPT !.chunks_sent = @ + 1]
        ELSE IF rank <= 2 /\ rel.steps_sent < Len(buf.steps)
          THEN [Yield(rel, "steps",
                      Event("step", buf.steps[rel.steps_sent + 1], 0))
                  EXCEPT !.steps_sent = @ + 1]
        ELSE resume_check_done(rel, buf)

\* One resumption of relay r.  Entering wait_for_update clears the event.
RelayRun(r) ==
    LET rel == relays[r]
        buf == buffers[rel.buf]
        nxt == IF rel.kind = "send" THEN send_generate_events(rel, buf)
                                    ELSE resume_generate_events(rel, buf)
    IN  /\ relays' = [relays EXCEPT ![r] = nxt]
        /\ buffers' = IF nxt.phase = "wait"
                        THEN [buffers EXCEPT ![rel.buf].ev = FALSE]
                        ELSE buffers
        /\ UNCHANGED <<termCalls, mgr_buffers, mgr_tasks, tasks>>

Suspended(rel) == rel.phase \in {"chunks", "steps", "notifications", "usage"}

\* The consumer takes the yielded event and asks for the next one (also
\* the very first resumption of a fresh generator).
relay_next(r) ==
    /\ Suspended(relays[r])
    /\ RelayRun(r)

\* wait_for_update returns True: the event was set while waiting.
wait_for_update_signalled(r) ==
    /\ relays[r].phase = "wait"
    /\ buffers[relays[r].buf].ev
    /\ RelayRun(r)

\* wait_for_update returns False: the timeout elapsed.
wait_for_update_timeout(r) ==
    /\ relays[r].phase = "wait"
    /\ ~buffers[relays[r].buf].ev
    /\ RelayRun(r)

\* A closed generator: its locals are released, only the fact remains.
Closed(rel) ==
    [NewRelay(rel.buf, rel.kind, 0, 0, rel.attached_status)
        EXCEPT !.phase = "disconnected"]

\* A disconnect that reached the runner, as it would if the task were a
\* child of the request's cancellation scope.
relay_disconnect_cancels_runner(r) ==
    /\ relays[r].phase \notin {"ended", "disconnected"}
    /\ relays' = [relays EXCEPT ![r] = Closed(@)]
    /\ tasks' = [tasks EXCEPT ![relays[r].buf] = TaskCancel(@)]
    /\ UNCHANGED <<buffers, termCalls, mgr_buffers, mgr_tasks>>

\* The client goes away: CancelledError at the generator's suspension
\* point; both handlers only log.
relay_disconnect(r) ==
    /\ relays[r].phase \notin {"ended", "disconnected"}
    /\ relays' = [relays EXCEPT ![r] = Closed(@)]
    /\ UNCHANGED <<buffers, termCalls, mgr_buffers, mgr_tasks, tasks>>

\* GET /{session_id}/response-stream?from_chunk=&from_step=
resume_response_stream(sid, from_chunk, from_step) ==
    /\ get_buffer(sid) # 0
    /\ relays' = Append(relays,
          NewRelay(get_buffer(sid), "resume", from_chunk, from_step,
                   buffers[get_buffer(sid)].status))
    /\ UNCHANGED <<buffers, termCalls, mgr_buffers, mgr_tasks, tasks>>

\* ------------------------------------------------------- specification
\* TaskRunnerService.__init__ with its default limit; nothing submitted.
DefaultMaxConcurrent == 3

NoRuns ==
    /\ runs = << >>
    /\ stored = << >>
    /\ semaphore = max_concurrent
    /\ abort_calls = << >>

\* CopilotService.__init__: no per-session client; the cleanup loop is in
\* its sleep.  Every session is stored with the first directory.
Idle == [pc |-> "sleep", todo |-> << >>, h |-> 0, collected |-> {}]

NoClients ==
    /\ clients = [s \in AllSessions |-> 0]
    /\ handles = << >>
    /\ lock = 0
    /\ sweep = Idle
    /\ stopping = {}
    /\ session_cwd = [s \in AllSessions |-> "/a"]
    /\ turn_client = << >>

\* Every session is stored with the first value of every field; no
\* disconnect is waiting; no caller drives a buffer by hand.
StoredMeta ==
    [name |-> "x", mcp_servers |-> "x", tools |-> "x",
     system_message |-> "x", sub_agents |-> "x"]

\* The service is up: CopilotService.stop() has not been called.
Up == [pc |-> "up", todo |-> << >>, h |-> 0, pool |-> {}]

\* No send_message generator has been started: the locals as lines
\* 498-500 and 559-561 initialise them.  log, enqueued and yielded record
\* the SDK events received, the items put on the queue and the items
\* the generator has yielded.
NoStream ==
    [pc |-> "idle", turn |-> 0, compacting |-> FALSE,
     idle_received |-> FALSE, last_token_limit |-> FALSE, done |-> FALSE,
     event_queue |-> << >>, full_response |-> << >>,
     log |-> << >>, enqueued |-> << >>, yielded |-> << >>]

NoLate == shutdown = Up /\ stream = NoStream

NoAux ==
    /\ session_meta = [s \in AllSessions |-> StoredMeta]
    /\ disconnects = {}
    /\ script = [todo |-> << >>, done |-> << >>]
    /\ NoLate

\* The specifications of the turn/buffer/relay core leave the submitter
\* and the handle pool idle: nothing is submitted, no handle is created.
Init ==
    /\ buffers = << >>
    /\ termCalls = << >>
    /\ mgr_buffers = [s \in Sessions |-> 0]
    /\ mgr_tasks = [s \in Sessions |-> 0]
    /\ tasks = << >>
    /\ relays = << >>
    /\ max_concurrent = DefaultMaxConcurrent
    /\ NoRuns
    /\ NoClients
    /\ NoAux

Turns == 1..Len(buffers)
Relays == 1..Len(relays)

\* Every operation of the core, explored up to maxTurns send_message
\* requests, maxEvents backend events and maxResumes reattachments.
Step(maxTurns, maxEvents, maxResumes) ==
    \/ \E s \in Sessions :
          /\ Len(buffers) < maxTurns
          /\ send_message(s)
          /\ UNCHANGED extVars
    \/ \E s \in Sessions :
          /\ remove_buffer(s)
          /\ UNCHANGED extVars
    \/ \E s \in Sessions : \E b \in Turns :
          /\ b = get_buffer(s)
          /\ Cardinality({r \in Relays : relays[r].kind = "resume"})
                < maxResumes
          /\ \E fc \in 0..Len(buffers[b].chunks) :
               \E fs \in 0..Len(buffers[b].steps) :
                  resume_response_stream(s, fc, fs)
          /\ UNCHANGED extVars
    \/ \E t \in Turns :
          /\ run_agent_start(t)
          /\ UNCHANGED extVars
    \/ \E t \in Turns :
          /\ run_agent_cancelled_unstarted(t)
          /\ UNCHANGED extVars
    \/ \E t \in Turns : \E evt \in BackendEvents :
          /\ TotalEvents(Len(tasks)) < maxEvents
          /\ stream_event(t, evt)
          /\ UNCHANGED extVars
    \/ \E t \in Turns :
          /\ stream_raises(t)
          /\ UNCHANGED extVars
    \/ \E t \in Turns : \E meta \in MetaOutcomes :
          /\ stream_finished(t, meta)
          /\ UNCHANGED extVars
    \/ \E t \in Turns : \E res \in ListOutcomes :
          /\ list_sessions_returns(t, res)
          /\ UNCHANGED extVars
    \/ \E t \in Turns : \E res \in SaveOutcomes :
          /\ get_session_returns(t, res)
          /\ UNCHANGED extVars
    \/ \E t \in Turns :
          /\ run_agent_cancelled(t)
          /\ UNCHANGED extVars
    \/ \E r \in Relays :
          /\ relay_next(r)
          /\ UNCHANGED extVars
    \/ \E r \in Relays :
          /\ wait_for_update_signalled(r)
          /\ UNCHANGED extVars
    \/ \E r \in Relays :
          /\ wait_for_update_timeout(r)
          /\ UNCHANGED extVars
    \/ \E r \in Relays :
          /\ relay_disconnect(r)
          /\ UNCHANGED extVars

\* Supersession: several turns of one conversation.
Next == Step(MaxTurns, MaxEvents, MaxResumes)

Spec == Init /\ [][Next]_vars

\* One turn in depth: a longer stream, one reattachment.
NextTurn == Step(1, DeepEvents, MaxResumes)

SpecTurn == Init /\ [][NextTurn]_vars

\* One turn, a short stream.
NextShort == Step(1, MaxEvents, MaxResumes)

SpecShort == Init /\ [][NextShort]_vars


\* ------------------------------------------------------------- fairness
\* asyncio runs every ready callback: a task that can take a step takes
\* it, wait_for_update returns at the latest on its timeout, and a client
\* that stays attached keeps reading.  Disconnects, new requests and
\* further backend events are not forced.
TurnIds == 1..MaxTurns
RelayIds == 1..(MaxTurns + MaxResumes)

TaskStep(t) ==
    /\ t \in Turns
    /\ \/ run_agent_start(t)
       \/ run_agent_cancelled_unstarted(t)
       \/ stream_raises(t)
       \/ \E meta \in MetaOutcomes : stream_finished(t, meta)
       \/ \E res \in ListOutcomes : list_sessions_returns(t, res)
       \/ \E res \in SaveOutcomes : get_session_returns(t, res)
       \/ run_agent_cancelled(t)
    /\ UNCHANGED extVars

RelayStep(r) ==
    /\ r \in Relays
    /\ \/ relay_next(r)
       \/ wait_for_update_signalled(r)
       \/ wait_for_update_timeout(r)
    /\ UNCHANGED extVars

Fairness ==
    /\ \A t \in TurnIds : WF_vars(TaskStep(t))
    /\ \A r \in RelayIds : WF_vars(RelayStep(r))

FairShort == SpecShort /\ Fairness

\* ==================================================== TaskRunnerService
\* Bounds of the submitter specifications.
MaxRuns == 2
MaxLimit == 2
MaxAborts == 1

\* create_session writes the session file; it returns or raises.
CreateOutcomes == {"created", "raises"}

TerminalStatus == {"completed", "failed", "timed_out", "aborted"}

\* TaskRun(status=PENDING) and its not yet started _execute_run task.
TaskRun ==
    [pc |-> "created", must_cancel |-> FALSE, outcome |-> "pending",
     status |-> "pending", output |-> << >>, session_id |-> "",
     buf |-> 0, holds |-> FALSE]

\* task_run_storage_service.save_run: the status is rewritten, the output
\* file only when run.output is non-empty.
save_run(rec, run) ==
    [status |-> run.status,
     output |-> IF run.output # << >> THEN run.output ELSE rec.output]

\* The buffer index of a headless run has no run_agent task: the slot in
\* `tasks` only counts the backend events of its stream.
NoRunAgent ==
    [pc |-> "headless", must_cancel |-> FALSE, nevents |-> 0,
     outcome |-> "pending"]

\* submit_run: record saved as PENDING, task created and kept in
\* _active_runs.
submit_run ==
    /\ runs' = Append(runs, TaskRun)
    /\ stored' = Append(stored, [status |-> "pending", output |-> << >>])
    /\ UNCHANGED <<buffers, termCalls, mgr_buffers, mgr_tasks, tasks, relays,
                   max_concurrent, semaphore, abort_calls>>

\* _execute_run from the moment the semaphore is acquired up to the
\* suspension inside wait_for(send_message_background(...)).  RUNNING is
\* saved first; create_session runs outside the try block, so when it
\* raises the exception leaves `async with` (the slot is given back) and
\* no handler and no finally clause of _execute_run runs.
execute_run_enter(r, cs) ==
    LET run == [runs[r] EXCEPT !.status = "running"]
    IN  IF cs = "raises"
          THEN /\ runs' = [runs EXCEPT ![r] =
                      [run EXCEPT !.pc = "done", !.outcome = "raised"]]
               /\ stored' = [stored EXCEPT ![r] = save_run(@, run)]
               /\ UNCHANGED <<buffers, termCalls, mgr_buffers, mgr_tasks,
                              tasks, semaphore>>
          ELSE LET sid == RunSessionIds[r]
                   c   == create_buffer(sid)
               IN  /\ runs' = [runs EXCEPT ![r] =
                          [run EXCEPT !.pc = "streaming", !.session_id = sid,
                                      !.buf = c.new, !.holds = TRUE]]
                   /\ stored' = [stored EXCEPT ![r] = save_run(@, run)]
                   /\ semaphore' = semaphore - 1
                   /\ buffers' = c.bufs
                   /\ termCalls' = Append(termCalls, 0)
                   /\ tasks' = Append(c.tsks, NoRunAgent)
                   /\ mgr_buffers' = c.m_bufs
                   /\ mgr_tasks' = c.m_tsks

\* A first step that enters whatever the semaphore's value.
execute_run_start_unbounded(r, cs) ==
    /\ runs[r].pc = "created" /\ ~runs[r].must_cancel
    /\ execute_run_enter(r, cs)
    /\ UNCHANGED <<relays, max_concurrent, abort_calls>>

\* First step of the task: `async with self._semaphore` either acquires
\* at once or suspends in acquire().
execute_run_start(r, cs) ==
    /\ runs[r].pc = "created" /\ ~runs[r].must_cancel
    /\ IF semaphore > 0
         THEN execute_run_enter(r, cs)
         ELSE /\ runs' = [runs EXCEPT ![r].pc = "acquire"]
              /\ UNCHANGED <<buffers, termCalls, mgr_buffers, mgr_tasks,
                             tasks, stored, semaphore>>
    /\ UNCHANGED <<relays, max_concurrent, abort_calls>>

\* A waiter of the semaphore is woken once a slot is free.
execute_run_acquired(r, cs) ==
    /\ runs[r].pc = "acquire" /\ ~runs[r].must_cancel
    /\ semaphore > 0
    /\ execute_run_enter(r, cs)
    /\ UNCHANGED <<relays, max_concurrent, abort_calls>>

\* CancelledError delivered before the slot was acquired (task not yet
\* started, or suspended in acquire()): nothing of the body has run.
execute_run_cancelled_waiting(r) ==
    /\ runs[r].pc \in {"created", "acquire"} /\ runs[r].must_cancel
    /\ runs' = [runs EXCEPT ![r].pc = "done", ![r].must_cancel = FALSE,
                            ![r].outcome = "cancelled"]
    /\ UNCHANGED <<buffers, termCalls, mgr_buffers, mgr_tasks, tasks, relays,
                   stored, max_concurrent, semaphore, abort_calls>>

\* One backend event of the headless stream (send_message_background).
run_stream_event(r, evt) ==
    /\ runs[r].pc = "streaming" /\ ~runs[r].must_cancel
    /\ buffers' = [buffers EXCEPT ![runs[r].buf] = on_stream_event(@, evt)]
    /\ tasks' = [tasks EXCEPT ![runs[r].buf].nevents = @ + 1]
    /\ UNCHANGED <<termCalls, mgr_buffers, mgr_tasks, relays, runVars>>

\* The handlers and the finally clause of _execute_run up to its first
\* suspension, `await self._copilot.destroy_session_client(session_id)`:
\* the buffer has received its terminal call, run.status and run.output
\* are set and the record is saved.
execute_run_finally(r, buf, status) ==
    LET b   == runs[r].buf
        run == [runs[r] EXCEPT !.status = status,
                               !.output = get_full_content(buf),
                               !.pc = "cleanup", !.must_cancel = FALSE]
    IN  /\ buffers' = [buffers EXCEPT ![b] = buf]
        /\ termCalls' = [termCalls EXCEPT ![b] = @ + 1]
        /\ runs' = [runs EXCEPT ![r] = run]
        /\ stored' = [stored EXCEPT ![r] = save_run(@, run)]
        /\ UNCHANGED <<mgr_buffers, mgr_tasks, tasks, relays,
                       max_concurrent, semaphore, abort_calls>>

\* send_message_background returns: buffer.complete(), then the status
\* is read back from the buffer.
run_stream_finished(r) ==
    /\ runs[r].pc = "streaming" /\ ~runs[r].must_cancel
    /\ LET buf == complete(buffers[runs[r].buf])
       IN  execute_run_finally(r, buf,
              IF buf.status = "completed" THEN "completed" ELSE "failed")

\* The stream raises: send_message_background fails the buffer and
\* re-raises into `except Exception`.
run_stream_raises(r) ==
    /\ runs[r].pc = "streaming" /\ ~runs[r].must_cancel
    /\ execute_run_finally(r, fail(buffers[runs[r].buf], "boom"), "failed")

\* The deadline of asyncio.wait_for passes: the inner coroutine is
\* cancelled (its handler fails the buffer), TimeoutError is raised.
execute_run_times_out_no_output(r) ==
    /\ runs[r].pc = "streaming" /\ ~runs[r].must_cancel
    /\ execute_run_finally(r,
          [fail(buffers[runs[r].buf], "Task was cancelled")
              EXCEPT !.chunks = << >>],
          "timed_out")

execute_run_times_out(r) ==
    /\ runs[r].pc = "streaming" /\ ~runs[r].must_cancel
    /\ execute_run_finally(r,
          fail(buffers[runs[r].buf], "Task was cancelled"), "timed_out")

\* CancelledError delivered inside wait_for: the inner coroutine fails
\* the buffer and re-raises, `except asyncio.CancelledError` records
\* ABORTED and does not re-raise.
execute_run_cancelled(r) ==
    /\ runs[r].pc = "streaming" /\ runs[r].must_cancel
    /\ execute_run_finally(r,
          fail(buffers[runs[r].buf], "Task was cancelled"), "aborted")

\* Rest of the finally clause once destroy_session_client has returned:
\* remove_buffer(session_id), then `async with` releases the slot.
execute_run_cleanup(r) ==
    /\ runs[r].pc = "cleanup" /\ ~runs[r].must_cancel
    /\ LET sid == runs[r].session_id
       IN  IF mgr_buffers[sid] # 0 \/ mgr_tasks[sid] # 0
             THEN remove_buffer(sid)
             ELSE UNCHANGED <<buffers, termCalls, mgr_buffers, mgr_tasks,
                              tasks, relays>>
    /\ runs' = [runs EXCEPT ![r].pc = "done", ![r].holds = FALSE,
                            ![r].outcome = "returned"]
    /\ semaphore' = semaphore + 1
    /\ UNCHANGED <<stored, max_concurrent, abort_calls>>

\* CancelledError delivered while the finally clause is suspended in
\* destroy_session_client: it leaves the finally clause, remove_buffer is
\* skipped, the slot is released.
execute_run_cleanup_cancelled(r) ==
    /\ runs[r].pc = "cleanup" /\ runs[r].must_cancel
    /\ runs' = [runs EXCEPT ![r].pc = "done", ![r].holds = FALSE,
                            ![r].must_cancel = FALSE,
                            ![r].outcome = "cancelled"]
    /\ semaphore' = semaphore + 1
    /\ UNCHANGED <<buffers, termCalls, mgr_buffers, mgr_tasks, tasks, relays,
                   stored, max_concurrent, abort_calls>>

\* abort_run(run_id): False for an id without a live task; otherwise
\* cancel the task, then load the stored record, set ABORTED and save it.
abort_run(id) ==
    IF id \in 1..Len(runs) /\ runs[id].pc # "done"
      THEN /\ runs' = [runs EXCEPT ![id].must_cancel = TRUE]
           /\ stored' = [stored EXCEPT ![id].status = "aborted"]
           /\ abort_calls' = Append(abort_calls, [id |-> id, ret |-> TRUE])
           /\ UNCHANGED <<buffers, termCalls, mgr_buffers, mgr_tasks, tasks,
                          relays, max_concurrent, semaphore>>
      ELSE /\ abort_calls' = Append(abort_calls, [id |-> id, ret |-> FALSE])
           /\ UNCHANGED <<buffers, termCalls, mgr_buffers, mgr_tasks, tasks,
                          relays, runs, stored, max_concurrent, semaphore>>

\* ------------------------------------------- submitter specifications
RunIds == 1..Len(runs)

\* TaskRunnerService constructed with a limit in 1..maxLimit, an empty
\* buffer registry, nothing submitted.
InitRunner(maxLimit) ==
    /\ buffers = << >>
    /\ termCalls = << >>
    /\ mgr_buffers = [s \in AllSessions |-> 0]
    /\ mgr_tasks = [s \in AllSessions |-> 0]
    /\ tasks = << >>
    /\ relays = << >>
    /\ max_concurrent \in 1..maxLimit
    /\ NoRuns
    /\ NoClients
    /\ NoAux

\* Every operation of the submitter, explored up to maxRuns submissions,
\* maxEvents backend events and maxAborts abort_run calls.
RunStep(maxRuns, maxEvents, maxAborts) ==
    \/ /\ Len(runs) < maxRuns
       /\ submit_run
       /\ UNCHANGED <<poolVars, auxVars, lateVars>>
    \/ \E r \in RunIds : \E cs \in CreateOutcomes :
          /\ execute_run_start(r, cs)
          /\ UNCHANGED <<poolVars, auxVars, lateVars>>
    \/ \E r \in RunIds : \E cs \in CreateOutcomes :
          /\ execute_run_acquired(r, cs)
          /\ UNCHANGED <<poolVars, auxVars, lateVars>>
    \/ \E r \in RunIds :
          /\ execute_run_cancelled_waiting(r)
          /\ UNCHANGED <<poolVars, auxVars, lateVars>>
    \/ \E r \in RunIds : \E evt \in BackendEvents :
          /\ TotalEvents(Len(tasks)) < maxEvents
          /\ run_stream_event(r, evt)
          /\ UNCHANGED <<poolVars, auxVars, lateVars>>
    \/ \E r \in RunIds :
          /\ run_stream_finished(r)
          /\ UNCHANGED <<poolVars, auxVars, lateVars>>
    \/ \E r \in RunIds :
          /\ run_stream_raises(r)
          /\ UNCHANGED <<poolVars, auxVars, lateVars>>
    \/ \E r \in RunIds :
          /\ execute_run_times_out(r)
          /\ UNCHANGED <<poolVars, auxVars, lateVars>>
    \/ \E r \in RunIds :
          /\ execute_run_cancelled(r)
          /\ UNCHANGED <<poolVars, auxVars, lateVars>>
    \/ \E r \in RunIds :
          /\ execute_run_cleanup(r)
          /\ UNCHANGED <<poolVars, auxVars, lateVars>>
    \/ \E r \in RunIds :
          /\ execute_run_cleanup_cancelled(r)
          /\ UNCHANGED <<poolVars, auxVars, lateVars>>
    \/ \E id \in 0..Len(runs) :
          /\ Len(abort_calls) < maxAborts
          /\ abort_run(id)
          /\ UNCHANGED <<poolVars, auxVars, lateVars>>

\* Several submissions competing for the slots.
NextRuns == RunStep(MaxRuns, MaxEvents, MaxAborts)

SpecRuns == InitRunner(MaxLimit) /\ [][NextRuns]_vars

\* Two submissions under limit 1, a longer stream.
NextDeadline == RunStep(2, DeepEvents, 1)

SpecDeadline == InitRunner(1) /\ [][NextDeadline]_vars

\* Scenario A: limit 1, ScenarioJobs submissions, every create_session
\* succeeds and every backend turn ends normally; nobody aborts.
ScenarioJobs == 3

NextScenarioA ==
    \/ /\ Len(runs) < ScenarioJobs
       /\ submit_run
       /\ UNCHANGED <<poolVars, auxVars, lateVars>>
    \/ \E r \in RunIds :
          /\ execute_run_start(r, "created")
          /\ UNCHANGED <<poolVars, auxVars, lateVars>>
    \/ \E r \in RunIds :
          /\ execute_run_acquired(r, "created")
          /\ UNCHANGED <<poolVars, auxVars, lateVars>>
    \/ \E r \in RunIds : \E evt \in BackendEvents :
          /\ TotalEvents(Len(tasks)) < MaxEvents
          /\ run_stream_event(r, evt)
          /\ UNCHANGED <<poolVars, auxVars, lateVars>>
    \/ \E r \in RunIds :
          /\ run_stream_finished(r)
          /\ UNCHANGED <<poolVars, auxVars, lateVars>>
    \/ \E r \in RunIds :
          /\ execute_run_cleanup(r)
          /\ UNCHANGED <<poolVars, auxVars, lateVars>>

SpecScenarioA == InitRunner(1) /\ [][NextScenarioA]_vars

\* The event loop runs every ready step of an execution task, a free
\* slot wakes a waiter, and each backend turn of the scenario ends.
ExecuteRunStep(r) ==
    /\ r \in RunIds
    /\ \/ execute_run_start(r, "created")
       \/ execute_run_acquired(r, "created")
       \/ run_stream_finished(r)
       \/ execute_run_cleanup(r)
    /\ UNCHANGED <<poolVars, auxVars, lateVars>>

FairScenarioA ==
    SpecScenarioA /\ \A r \in 1..ScenarioJobs : WF_vars(ExecuteRunStep(r))

\* A headless submission whose session is opened in the chat UI: once
\* create_session has stored the session, POST /{session_id}/messages is
\* accepted for it like for any other session.
Interactive(t) == tasks[t].pc # "headless"

NextHeadless ==
    \/ /\ Len(runs) < 1
       /\ submit_run
       /\ UNCHANGED <<poolVars, auxVars, lateVars>>
    \/ \E r \in RunIds :
          /\ execute_run_start(r, "created")
          /\ UNCHANGED <<poolVars, auxVars, lateVars>>
    \/ \E r \in RunIds : \E evt \in BackendEvents :
          /\ TotalEvents(Len(tasks)) < MaxEvents
          /\ run_stream_event(r, evt)
          /\ UNCHANGED <<poolVars, auxVars, lateVars>>
    \/ \E r \in RunIds :
          /\ run_stream_finished(r)
          /\ UNCHANGED <<poolVars, auxVars, lateVars>>
    \/ \E r \in RunIds :
          /\ execute_run_times_out(r)
          /\ UNCHANGED <<poolVars, auxVars, lateVars>>
    \/ \E r \in RunIds :
          /\ execute_run_cleanup(r)
          /\ UNCHANGED <<poolVars, auxVars, lateVars>>
    \/ \E r \in RunIds :
          /\ runs[r].session_id # ""
          /\ Cardinality({t \in Turns : Interactive(t)}) < MaxTurns
          /\ send_message(runs[r].session_id)
          /\ UNCHANGED extVars
    \/ \E t \in Turns :
          /\ run_agent_start(t)
          /\ UNCHANGED extVars
    \/ \E t \in Turns :
          /\ run_agent_cancelled_unstarted(t)
          /\ UNCHANGED extVars
    \/ \E t \in Turns : \E evt \in BackendEvents :
          /\ TotalEvents(Len(tasks)) < MaxEvents
          /\ stream_event(t, evt)
          /\ UNCHANGED extVars
    \/ \E t \in Turns : \E meta \in MetaOutcomes :
          /\ stream_finished(t, meta)
          /\ UNCHANGED extVars
    \/ \E t \in Turns : \E res \in ListOutcomes :
          /\ list_sessions_returns(t, res)
          /\ UNCHANGED extVars
    \/ \E t \in Turns : \E res \in SaveOutcomes :
          /\ get_session_returns(t, res)
          /\ UNCHANGED extVars
    \/ \E t \in Turns :
          /\ run_agent_cancelled(t)
          /\ UNCHANGED extVars

SpecHeadless == InitRunner(1) /\ [][NextHeadless]_vars

\* ======================================================= the handle pool
\* Time is counted in seconds and advances by one sweep period at a time.
IdleTimeoutSeconds == 600
SweepPeriodSeconds == 60

\* Bound of the destroy specification: destroy_session_client calls.
MaxDestroys == 3

\* Bound of the buffer specification: add_chunk calls on one buffer.
MaxChunks == 3

\* Bound of the registry specification: turns posted on two conversations.
GcTurns == 3

\* Bound of the sweep specification: turns posted while two sessions are
\* swept.
SweepTurns == 3

\* Sessions of the pool specifications and the directories they may use.
PoolSessions == {"s1", "h1"}
Directories == {"/a", "/b"}

\* SessionClient.__init__.  idle = now - last_activity; fresh records that
\* no full sweep period has passed without a touch of the handle.
SessionClient(sid, cwd) ==
    [session_id |-> sid, cwd |-> cwd, started |-> FALSE, idle |-> 0,
     stop_calls |-> 0, teardowns |-> 0, fresh |-> TRUE, failed |-> FALSE]

touch(h) == [h EXCEPT !.idle = 0]

\* SessionClient.start, reached through get_or_create_session, which also
\* touches the handle.
start(h) == touch([h EXCEPT !.started = TRUE])

\* SessionClient.stop is entered; it returns at once unless the handle is
\* started, otherwise it suspends in session.destroy()/client.stop().
stop_called(h) == [h EXCEPT !.stop_calls = @ + 1]

\* ...and the end of SessionClient.stop after that suspension.
stop_returned(h) == [h EXCEPT !.started = FALSE, !.teardowns = @ + 1]

\* The end of a SessionClient.stop in which session.destroy() or
\* client.stop() raised: the error is logged, the handle is stopped all
\* the same.
stop_raised(h) == [stop_returned(h) EXCEPT !.failed = TRUE]

\* A handle that has left the pool: its last_activity is never read
\* again, so its age is no longer tracked.
retired(h) == [h EXCEPT !.idle = 0, !.fresh = FALSE]

is_session_active(sid) == clients[sid] # 0

has_active_response(sid) ==
    /\ mgr_buffers[sid] # 0
    /\ buffers[mgr_buffers[sid]].status = "running"

\* POST /{session_id}/messages in the pool specifications: the router
\* reads session.cwd, then creates buffer and task.
pool_send_message(sid) ==
    /\ send_message(sid)
    /\ turn_client' = Append(turn_client, [cwd |-> session_cwd[sid], h |-> 0])
    /\ UNCHANGED <<clients, handles, lock, sweep, stopping, session_cwd,
                   runVars, auxVars, lateVars>>

\* The handle a turn starts streaming on: get_or_create_session starts and
\* touches it.
turn_streams_on(t, hs, n) ==
    /\ handles' = [hs EXCEPT ![n] = start(@)]
    /\ turn_client' = [turn_client EXCEPT ![t].h = n]
    /\ tasks' = [tasks EXCEPT ![t].pc = "streaming"]

\* A get_session_client that keeps whatever handle is registered.
get_session_client_keeps_handle(t) ==
    LET sid == buffers[t].session_id
        cwd == turn_client[t].cwd
        old == clients[sid]
        n   == Len(handles) + 1
    IN  /\ tasks[t].pc = "created" /\ ~tasks[t].must_cancel
        /\ lock = 0
        /\ IF old = 0
             THEN /\ clients' = [clients EXCEPT ![sid] = n]
                  /\ turn_streams_on(t, Append(handles,
                                               SessionClient(sid, cwd)), n)
             ELSE /\ turn_streams_on(t, handles, old)
                  /\ UNCHANGED clients
        /\ UNCHANGED <<buffers, termCalls, mgr_buffers, mgr_tasks, relays,
                       lock, sweep, stopping, session_cwd, runVars, auxVars, lateVars>>

\* First step of run_agent in the pool specifications: send_message calls
\* get_session_client(session_id, cwd) under the lock.  A registered
\* handle of another cwd is stopped while the lock is held.
get_session_client(t) ==
    LET sid == buffers[t].session_id
        cwd == turn_client[t].cwd
        old == clients[sid]
        n   == Len(handles) + 1
    IN  /\ tasks[t].pc = "created" /\ ~tasks[t].must_cancel
        /\ lock = 0
        /\ IF old = 0
             THEN /\ clients' = [clients EXCEPT ![sid] = n]
                  /\ turn_streams_on(t, Append(handles,
                                               SessionClient(sid, cwd)), n)
                  /\ UNCHANGED lock
           ELSE IF handles[old].cwd = cwd
             THEN /\ turn_streams_on(t, handles, old)
                  /\ UNCHANGED <<clients, lock>>
           ELSE IF ~handles[old].started
             THEN /\ clients' = [clients EXCEPT ![sid] = n]
                  /\ turn_streams_on(t,
                        Append([handles EXCEPT
                                   ![old] = retired(stop_called(@))],
                               SessionClient(sid, cwd)), n)
                  /\ UNCHANGED lock
           ELSE /\ handles' = [handles EXCEPT ![old] = stop_called(@)]
                /\ tasks' = [tasks EXCEPT ![t].pc = "get_client"]
                /\ lock' = t
                /\ UNCHANGED <<clients, turn_client>>
        /\ UNCHANGED <<buffers, termCalls, mgr_buffers, mgr_tasks, relays,
                       sweep, stopping, session_cwd, runVars, auxVars, lateVars>>

\* client.stop() returns inside get_session_client: the new handle is
\* installed, the lock released, and the turn goes on to stream.
get_session_client_recreated(t) ==
    LET sid == buffers[t].session_id
        old == clients[sid]
        n   == Len(handles) + 1
    IN  /\ tasks[t].pc = "get_client" /\ lock = t
        /\ clients' = [clients EXCEPT ![sid] = n]
        /\ turn_streams_on(t,
              Append([handles EXCEPT ![old] = retired(stop_returned(@))],
                     SessionClient(sid, turn_client[t].cwd)), n)
        /\ lock' = 0
        /\ UNCHANGED <<buffers, termCalls, mgr_buffers, mgr_tasks, relays,
                       sweep, stopping, session_cwd, runVars, auxVars, lateVars>>

\* A backend event: on_event touches the turn's handle, then the event
\* reaches the buffer.
pool_stream_event(t, evt) ==
    /\ stream_event(t, evt)
    /\ handles' = [handles EXCEPT ![turn_client[t].h] = touch(@)]
    /\ UNCHANGED <<clients, lock, sweep, stopping, session_cwd, turn_client,
                   runVars, auxVars, lateVars>>

\* A destroy_session_client that reads the entry and leaves it in the map.
destroy_session_client_keeps_entry(sid, after) ==
    LET h == clients[sid]
    IN  /\ lock = 0
        /\ IF h = 0
             THEN UNCHANGED <<clients, handles, stopping>>
             ELSE /\ UNCHANGED clients
                  /\ handles' = [handles EXCEPT ![h] = stop_called(@)]
                  /\ stopping' = IF handles[h].started
                                   THEN stopping
                                          \cup {[h |-> h, after |-> after]}
                                   ELSE stopping

\* destroy_session_client up to its suspension: pop(session_id, None)
\* under the lock, then client.stop() when there was an entry.  `after`
\* is what the caller does once stop has returned.
destroy_session_client(sid, after) ==
    LET h == clients[sid]
    IN  /\ lock = 0
        /\ IF h = 0
             THEN UNCHANGED <<clients, handles, stopping>>
             ELSE /\ clients' = [clients EXCEPT ![sid] = 0]
                  /\ handles' = [handles EXCEPT
                                    ![h] = retired(stop_called(@))]
                  /\ stopping' = IF handles[h].started
                                   THEN stopping
                                          \cup {[h |-> h, after |-> after]}
                                   ELSE stopping

\* One destroy_session_client(sid) made by a caller that does nothing
\* after it; the calls are counted.
destroy_session_client_called(sid) ==
    /\ destroy_session_client(sid,
          [sid |-> "", cwd |-> "", meta |-> StoredMeta])
    /\ script' = [script EXCEPT !.done = Append(@, <<sid>>)]
    /\ UNCHANGED <<buffers, termCalls, mgr_buffers, mgr_tasks, tasks, relays,
                   lock, sweep, session_cwd, turn_client, runVars,
                   session_meta, disconnects,
                   lateVars>>

\* SessionUpdate: every field is optional; None stands for "not supplied".
None == "none"

NoChange ==
    [name |-> None, cwd |-> None, mcp_servers |-> None, tools |-> None,
     system_message |-> None, sub_agents |-> None]

CwdRequest(cwd) == [NoChange EXCEPT !.cwd = cwd]

\* The fields update_session compares with the stored session.
MetaConfigFields == {"mcp_servers", "tools", "system_message", "sub_agents"}

\* The session object after the `if request.<field> is not None` blocks.
updated_meta(meta, request) ==
    [f \in DOMAIN meta |-> IF request[f] # None THEN request[f] ELSE meta[f]]

\* An update_session that recreates on a change of any field, the name
\* included.
update_session_any_field(sid, request) ==
    LET cwd  == IF request.cwd # None THEN request.cwd ELSE session_cwd[sid]
        meta == updated_meta(session_meta[sid], request)
        need_recreate ==
            /\ is_session_active(sid)
            /\ \/ cwd # session_cwd[sid]
               \/ meta # session_meta[sid]
        saved_now == ~need_recreate \/ ~handles[clients[sid]].started
    IN  /\ IF need_recreate
             THEN destroy_session_client(sid,
                      [sid |-> sid, cwd |-> cwd, meta |-> meta])
             ELSE UNCHANGED <<clients, handles, stopping>>
        /\ session_cwd' = IF saved_now
                            THEN [session_cwd EXCEPT ![sid] = cwd]
                            ELSE session_cwd
        /\ session_meta' = IF saved_now
                             THEN [session_meta EXCEPT ![sid] = meta]
                             ELSE session_meta
        /\ UNCHANGED <<buffers, termCalls, mgr_buffers, mgr_tasks, tasks,
                       relays, lock, sweep, turn_client, runVars,
                       disconnects, script,
                   lateVars>>

\* SessionService.update_session: the supplied fields are written to the
\* loaded session; when a configuration field changed and the session has
\* a handle, the handle is destroyed first and the metadata saved after
\* that await, otherwise the metadata is saved at once.
update_session(sid, request) ==
    LET cwd  == IF request.cwd # None THEN request.cwd ELSE session_cwd[sid]
        meta == updated_meta(session_meta[sid], request)
        need_recreate ==
            \/ /\ request.cwd # None
               /\ session_cwd[sid] # request.cwd
               /\ is_session_active(sid)
            \/ \E f \in MetaConfigFields :
                  /\ request[f] # None
                  /\ session_meta[sid][f] # request[f]
                  /\ is_session_active(sid)
        saved_now == ~need_recreate \/ ~handles[clients[sid]].started
    IN  /\ IF need_recreate
             THEN destroy_session_client(sid,
                      [sid |-> sid, cwd |-> cwd, meta |-> meta])
             ELSE UNCHANGED <<clients, handles, stopping>>
        /\ session_cwd' = IF saved_now
                            THEN [session_cwd EXCEPT ![sid] = cwd]
                            ELSE session_cwd
        /\ session_meta' = IF saved_now
                             THEN [session_meta EXCEPT ![sid] = meta]
                             ELSE session_meta
        /\ UNCHANGED <<buffers, termCalls, mgr_buffers, mgr_tasks, tasks,
                       relays, lock, sweep, turn_client, runVars,
                       disconnects, script,
                   lateVars>>

\* POST /{session_id}/disconnect: deferred while a response is active.
disconnect_session(sid) ==
    /\ ~has_active_response(sid)
    /\ is_session_active(sid)
    /\ destroy_session_client(sid,
          [sid |-> "", cwd |-> "", meta |-> StoredMeta])
    /\ UNCHANGED <<buffers, termCalls, mgr_buffers, mgr_tasks, tasks, relays,
                   lock, sweep, session_cwd, turn_client, runVars, auxVars, lateVars>>

\* GET /{session_id}: get_session_messages takes the pool lock and, when
\* the session has a started handle, awaits client.session.get_messages()
\* while holding it (lock = -1: held by a reader of messages).
get_session_messages(sid) ==
    /\ lock = 0 /\ disconnects = {}
    /\ is_session_active(sid)
    /\ handles[clients[sid]].started
    /\ lock' = -1
    /\ UNCHANGED <<buffers, termCalls, mgr_buffers, mgr_tasks, tasks, relays,
                   clients, handles, sweep, stopping, session_cwd,
                   turn_client, runVars, auxVars, lateVars>>

\* get_messages() returns and the lock is released.
get_session_messages_returns ==
    /\ lock = -1
    /\ lock' = 0
    /\ UNCHANGED <<buffers, termCalls, mgr_buffers, mgr_tasks, tasks, relays,
                   clients, handles, sweep, stopping, session_cwd,
                   turn_client, runVars, auxVars, lateVars>>

\* POST /{session_id}/disconnect while the pool lock is held: the check
\* of has_active_response has passed and destroy_session_client suspends
\* in the acquisition of the lock.
disconnect_session_waits(sid) ==
    /\ ~has_active_response(sid)
    /\ lock # 0
    /\ disconnects' = disconnects \cup {sid}
    /\ UNCHANGED <<buffers, termCalls, mgr_buffers, mgr_tasks, tasks, relays,
                   poolVars, runVars, session_meta, script,
                   lateVars>>

\* The lock is released and the waiting destroy_session_client, first in
\* the queue of the lock, pops the handle and stops it.
disconnect_session_acquires(sid) ==
    /\ sid \in disconnects
    /\ lock = 0
    /\ disconnects' = disconnects \ {sid}
    /\ IF is_session_active(sid)
         THEN destroy_session_client(sid,
                 [sid |-> "", cwd |-> "", meta |-> StoredMeta])
         ELSE UNCHANGED <<clients, handles, stopping>>
    /\ UNCHANGED <<buffers, termCalls, mgr_buffers, mgr_tasks, tasks, relays,
                   lock, sweep, session_cwd, turn_client, runVars,
                   session_meta, script,
                   lateVars>>

\* client.stop() returns to a suspended destroy_session_client;
\* update_session then saves the metadata.
destroy_session_client_returns(op) ==
    /\ op \in stopping
    /\ stopping' = stopping \ {op}
    /\ handles' = [handles EXCEPT ![op.h] = stop_returned(@)]
    /\ session_cwd' = IF op.after.sid # ""
                        THEN [session_cwd EXCEPT ![op.after.sid] = op.after.cwd]
                        ELSE session_cwd
    /\ session_meta' = IF op.after.sid # ""
                         THEN [session_meta EXCEPT
                                  ![op.after.sid] = op.after.meta]
                         ELSE session_meta
    /\ UNCHANGED <<buffers, termCalls, mgr_buffers, mgr_tasks, tasks, relays,
                   clients, lock, sweep, turn_client, runVars,
                   disconnects, script,
                   lateVars>>

\* One sweep period passes.
Aged(h) ==
    LET idle == IF h.idle > IdleTimeoutSeconds
                  THEN h.idle ELSE h.idle + SweepPeriodSeconds
    IN  [h EXCEPT !.idle = idle,
                  !.fresh = @ /\ idle <= SweepPeriodSeconds]

\* Only the age of a registered handle is ever read.
Registered(h) == clients[handles[h].session_id] = h

time_passes ==
    /\ \E h \in 1..Len(handles) :
          Registered(h) /\ handles[h].idle <= IdleTimeoutSeconds
    /\ handles' = [h \in 1..Len(handles) |->
                     IF Registered(h) THEN Aged(handles[h]) ELSE handles[h]]
    /\ UNCHANGED <<buffers, termCalls, mgr_buffers, mgr_tasks, tasks, relays,
                   clients, lock, sweep, stopping, session_cwd, turn_client,
                   runVars, auxVars, lateVars>>

\* The `for session_id in to_destroy` loop of _cleanup_idle_sessions from
\* one suspension to the next: destroy_session_client pops whatever handle
\* is registered under the id now and suspends in its stop(); ids without
\* a handle, or with a handle that was never started, do not suspend.
RECURSIVE cleanup_loop(_, _, _, _)
cleanup_loop(cl, hs, todo, collected) ==
    IF todo = << >>
      THEN [clients |-> cl, handles |-> hs,
            sweep |-> [Idle EXCEPT !.collected = collected]]
    ELSE LET sid == Head(todo)
             h   == cl[sid]
         IN  IF h = 0
               THEN cleanup_loop(cl, hs, Tail(todo), collected)
             ELSE IF ~hs[h].started
               THEN cleanup_loop([cl EXCEPT ![sid] = 0],
                                 [hs EXCEPT ![h] = retired(stop_called(@))],
                                 Tail(todo), collected)
             ELSE [clients |-> [cl EXCEPT ![sid] = 0],
                   handles |-> [hs EXCEPT ![h] = retired(stop_called(@))],
                   sweep |-> [pc |-> "stopping", todo |-> Tail(todo),
                              h |-> h, collected |-> collected]]

\* The ids a sweep collects under the lock.
IdleSessions ==
    {sid \in PoolSessions :
        /\ clients[sid] # 0
        /\ handles[clients[sid]].idle > IdleTimeoutSeconds}

\* The sequences that list every element of a set once.
Orders(S) ==
    {q \in [1..Cardinality(S) -> S] :
        \A i, j \in 1..Cardinality(S) : i # j => q[i] # q[j]}

\* _cleanup_idle_sessions wakes from its sleep, collects and starts to
\* destroy.  to_destroy follows the dict's insertion order; every order
\* is explored.
cleanup_idle_sessions ==
    /\ sweep.pc = "sleep" /\ lock = 0
    /\ IdleSessions # {}
    /\ \E todo \in Orders(IdleSessions) :
          LET c == cleanup_loop(clients, handles, todo,
                                {clients[sid] : sid \in IdleSessions})
          IN  /\ clients' = c.clients
              /\ handles' = c.handles
              /\ sweep' = c.sweep
    /\ UNCHANGED <<buffers, termCalls, mgr_buffers, mgr_tasks, tasks, relays,
                   lock, stopping, session_cwd, turn_client, runVars, auxVars, lateVars>>

\* client.stop() returns to the sweep, which goes on with its list.
cleanup_idle_sessions_next ==
    /\ sweep.pc = "stopping" /\ lock = 0
    /\ LET c == cleanup_loop(clients,
                    [handles EXCEPT ![sweep.h] = stop_returned(@)],
                    sweep.todo, sweep.collected)
       IN  /\ clients' = c.clients
           /\ handles' = c.handles
           /\ sweep' = c.sweep
    /\ UNCHANGED <<buffers, termCalls, mgr_buffers, mgr_tasks, tasks, relays,
                   lock, stopping, session_cwd, turn_client, runVars, auxVars, lateVars>>

\* A teardown error that leaves the sweep: the rest of its list is
\* dropped.
cleanup_idle_sessions_stop_propagates ==
    /\ sweep.pc = "stopping"
    /\ handles' = [handles EXCEPT ![sweep.h] = stop_raised(@)]
    /\ sweep' = [Idle EXCEPT !.collected = sweep.collected]
    /\ UNCHANGED <<buffers, termCalls, mgr_buffers, mgr_tasks, tasks, relays,
                   clients, lock, stopping, session_cwd, turn_client,
                   runVars, auxVars, lateVars>>

\* The stop the sweep is waiting for hits an error: SessionClient.stop
\* logs it and returns, and the sweep goes on with its list.
cleanup_idle_sessions_stop_raises ==
    /\ sweep.pc = "stopping" /\ lock = 0
    /\ LET c == cleanup_loop(clients,
                    [handles EXCEPT ![sweep.h] = stop_raised(@)],
                    sweep.todo, sweep.collected)
       IN  /\ clients' = c.clients
           /\ handles' = c.handles
           /\ sweep' = c.sweep
    /\ UNCHANGED <<buffers, termCalls, mgr_buffers, mgr_tasks, tasks, relays,
                   lock, stopping, session_cwd, turn_client, runVars,
                   auxVars, lateVars>>

\* CopilotService.stop(), first step: the cleanup task is cancelled and
\* awaited.  A sweep suspended in a handle's stop takes the CancelledError
\* there, which `except Exception` does not catch: that stop is abandoned.
CopilotService_stop ==
    /\ shutdown.pc = "up"
    /\ shutdown' = [shutdown EXCEPT !.pc = "cancelling"]
    /\ sweep' = [pc |-> "cancelled", todo |-> << >>, h |-> 0,
                 collected |-> sweep.collected]
    /\ UNCHANGED <<buffers, termCalls, mgr_buffers, mgr_tasks, tasks, relays,
                   clients, handles, lock, stopping, session_cwd,
                   turn_client, runVars, auxVars, stream>>

\* The `for session_id, client in list(...)` loop of CopilotService.stop
\* from one suspension to the next, then clear() and the release of the
\* lock.  A handle that is not started does not suspend.
RECURSIVE stop_loop(_, _, _)
stop_loop(hs, todo, pool) ==
    IF todo = << >>
      THEN [clients |-> [s \in DOMAIN clients |-> 0], handles |-> hs,
            lock |-> 0,
            shutdown |-> [pc |-> "stopped", todo |-> << >>, h |-> 0,
                          pool |-> pool]]
    ELSE LET h == clients[Head(todo)]
         IN  IF ~hs[h].started
               THEN stop_loop([hs EXCEPT ![h] = stop_called(@)],
                              Tail(todo), pool)
             ELSE [clients |-> clients,
                   handles |-> [hs EXCEPT ![h] = stop_called(@)],
                   lock |-> -2,
                   shutdown |-> [pc |-> "stopping", todo |-> Tail(todo),
                                 h |-> h, pool |-> pool]]

\* The registered session ids.
ActiveSessions == {sid \in DOMAIN clients : clients[sid] # 0}

\* CopilotService.stop() takes the pool lock (lock = -2: held by the
\* shutdown) and starts to stop every registered handle.
CopilotService_stop_acquires ==
    /\ shutdown.pc = "cancelling"
    /\ lock = 0 /\ disconnects = {}
    /\ \E todo \in Orders(ActiveSessions) :
          LET c == stop_loop(handles, todo,
                             {clients[sid] : sid \in ActiveSessions})
          IN  /\ clients' = c.clients
              /\ handles' = c.handles
              /\ lock' = c.lock
              /\ shutdown' = c.shutdown
    /\ UNCHANGED <<buffers, termCalls, mgr_buffers, mgr_tasks, tasks, relays,
                   sweep, stopping, session_cwd, turn_client, runVars,
                   auxVars, stream>>

\* client.stop() returns to CopilotService.stop, with or without a logged
\* error, and the loop goes on.
CopilotService_stop_next(raised) ==
    /\ shutdown.pc = "stopping"
    /\ LET c == stop_loop([handles EXCEPT ![shutdown.h] =
                             IF raised THEN retired(stop_raised(@))
                                       ELSE retired(stop_returned(@))],
                          shutdown.todo, shutdown.pool)
       IN  /\ clients' = c.clients
           /\ handles' = c.handles
           /\ lock' = c.lock
           /\ shutdown' = c.shutdown
    /\ UNCHANGED <<buffers, termCalls, mgr_buffers, mgr_tasks, tasks, relays,
                   sweep, stopping, session_cwd, turn_client, runVars,
                   auxVars, stream>>

\* ------------------------------------------------ pool specifications
\* What an event carries does not matter to the pool.
PoolEvents == {evt \in BackendEvents : evt.event = "step"}

InitPool ==
    /\ buffers = << >>
    /\ termCalls = << >>
    /\ mgr_buffers = [s \in AllSessions |-> 0]
    /\ mgr_tasks = [s \in AllSessions |-> 0]
    /\ tasks = << >>
    /\ relays = << >>
    /\ max_concurrent = DefaultMaxConcurrent
    /\ NoRuns
    /\ NoClients
    /\ NoAux

\* Turns that follow one another on each session (a message is posted
\* when no response is active), tab closes, the passing of time and the
\* idle sweep.
PoolStep(sessions, maxTurns, maxEvents) ==
    \/ \E s \in sessions :
          /\ Len(buffers) < maxTurns
          /\ ~has_active_response(s)
          /\ pool_send_message(s)
    \/ \E t \in Turns : get_session_client(t)
    \/ \E t \in Turns : \E evt \in PoolEvents :
          /\ TotalEvents(Len(tasks)) < maxEvents
          /\ pool_stream_event(t, evt)
    \/ \E t \in Turns :
          /\ stream_finished(t, "name_set")
          /\ UNCHANGED extVars
    \/ \E s \in sessions : disconnect_session(s)
    \/ \E op \in stopping : destroy_session_client_returns(op)
    \/ time_passes
    \/ cleanup_idle_sessions
    \/ cleanup_idle_sessions_next

\* Two sessions whose handles age and are swept.
NextSweep == PoolStep(PoolSessions, SweepTurns, MaxEvents)

SpecSweep == InitPool /\ [][NextSweep]_vars

\* One session whose working directory is changed between turns.
NextRecreate ==
    \/ PoolStep({"s1"}, MaxTurns, MaxEvents)
    \/ \E cwd \in Directories : update_session("s1", CwdRequest(cwd))
    \/ \E t \in Turns : get_session_client_recreated(t)

SpecRecreate == InitPool /\ [][NextRecreate]_vars

\* The message of the exception CopilotClient.start() raises when the
\* backend cannot be started.
BackendUnavailable == "backend unavailable"

\* First step of run_agent when the backend is unavailable:
\* get_session_client registers a new handle, client.start() raises inside
\* get_or_create_session; send_message_background fails the buffer and
\* re-raises, run_agent's `except Exception` fails it again.
start_raises(t) ==
    LET sid == buffers[t].session_id
        n   == Len(handles) + 1
    IN  /\ tasks[t].pc = "created" /\ ~tasks[t].must_cancel
        /\ lock = 0
        /\ clients[sid] = 0
        /\ clients' = [clients EXCEPT ![sid] = n]
        /\ handles' = Append(handles, SessionClient(sid, turn_client[t].cwd))
        /\ buffers' = [buffers EXCEPT ![t] =
              fail(fail(@, BackendUnavailable), BackendUnavailable)]
        /\ termCalls' = [termCalls EXCEPT ![t] = @ + 2]
        /\ tasks' = [tasks EXCEPT ![t] = TaskDone(@, "returned")]
        /\ UNCHANGED <<mgr_buffers, mgr_tasks, relays, lock, sweep, stopping,
                       session_cwd, turn_client, runVars, auxVars, lateVars>>

\* One session whose backend may fail to start.
NextUnavailable ==
    \/ PoolStep({"s1"}, MaxTurns, MaxEvents)
    \/ \E t \in Turns : start_raises(t)

SpecUnavailable == InitPool /\ [][NextUnavailable]_vars

\* One session whose tab is closed while its messages are read and new
\* turns are posted.  asyncio.Lock serves its waiters first come, first
\* served: nobody takes the lock ahead of a waiting disconnect.
NextDisconnect ==
    \/ /\ Len(buffers) < MaxTurns
       /\ ~has_active_response("s1")
       /\ pool_send_message("s1")
    \/ \E t \in Turns :
          /\ disconnects = {}
          /\ get_session_client(t)
    \/ \E t \in Turns : \E evt \in PoolEvents :
          /\ TotalEvents(Len(tasks)) < MaxEvents
          /\ pool_stream_event(t, evt)
    \/ \E t \in Turns :
          /\ stream_finished(t, "name_set")
          /\ UNCHANGED extVars
    \/ get_session_messages("s1")
    \/ get_session_messages_returns
    \/ disconnect_session("s1")
    \/ disconnect_session_waits("s1")
    \/ disconnect_session_acquires("s1")
    \/ \E op \in stopping : destroy_session_client_returns(op)

SpecDisconnect == InitPool /\ [][NextDisconnect]_vars

\* The registry on its own: turns of two conversations are posted, run,
\* end or are replaced, while time passes and the GC loop sweeps.
GcSessions == {"s1", "h1"}

NextGc ==
    \/ \E s \in GcSessions :
          /\ Len(buffers) < GcTurns
          /\ send_message(s)
          /\ UNCHANGED extVars
    \/ \E t \in Turns :
          /\ run_agent_start(t)
          /\ UNCHANGED extVars
    \/ \E t \in Turns :
          /\ run_agent_cancelled_unstarted(t)
          /\ UNCHANGED extVars
    \/ \E t \in Turns :
          /\ stream_finished(t, "name_set")
          /\ UNCHANGED extVars
    \/ \E t \in Turns :
          /\ stream_raises(t)
          /\ UNCHANGED extVars
    \/ \E t \in Turns :
          /\ run_agent_cancelled(t)
          /\ UNCHANGED extVars
    \/ /\ buffer_time_passes
       /\ UNCHANGED extVars
    \/ /\ cleanup_stale_buffers
       /\ UNCHANGED extVars

SpecGc == InitPool /\ [][NextGc]_vars

\* A ResponseBuffer driven by hand: constructed directly, then one
\* add_chunk per content of a given sequence, then complete().
ChunkSeqs == UNION {[1..k -> Contents] : k \in 0..MaxChunks}

InitScript ==
    /\ buffers = <<ResponseBuffer("s1")>>
    /\ termCalls = <<0>>
    /\ mgr_buffers = [s \in AllSessions |-> 0]
    /\ mgr_tasks = [s \in AllSessions |-> 0]
    /\ tasks = << >>
    /\ relays = << >>
    /\ max_concurrent = DefaultMaxConcurrent
    /\ NoRuns
    /\ NoClients
    /\ session_meta = [s \in AllSessions |-> StoredMeta]
    /\ disconnects = {}
    /\ NoLate
    /\ \E todo \in ChunkSeqs : script = [todo |-> todo, done |-> << >>]

script_add_chunk ==
    /\ script.todo # << >>
    /\ buffers' = [buffers EXCEPT ![1] = add_chunk(@, Head(script.todo))]
    /\ script' = [todo |-> Tail(script.todo),
                  done |-> Append(script.done, Head(script.todo))]
    /\ UNCHANGED <<termCalls, mgr_buffers, mgr_tasks, tasks, relays,
                   runVars, poolVars, session_meta, disconnects,
                   lateVars>>

script_complete ==
    /\ script.todo = << >>
    /\ buffers[1].status = "running"
    /\ buffers' = [buffers EXCEPT ![1] = complete(@)]
    /\ termCalls' = [termCalls EXCEPT ![1] = @ + 1]
    /\ UNCHANGED <<mgr_buffers, mgr_tasks, tasks, relays, extVars>>

NextScript == script_add_chunk \/ script_complete

SpecScript == InitScript /\ [][NextScript]_vars

\* The producer side on its own: turns of one conversation that stream,
\* end, fail, are superseded, removed and cancelled; nobody reads.
NextProducer ==
    \/ \E s \in Sessions :
          /\ Len(buffers) < MaxTurns
          /\ send_message(s)
          /\ UNCHANGED extVars
    \/ \E s \in Sessions :
          /\ remove_buffer(s)
          /\ UNCHANGED extVars
    \/ \E t \in Turns :
          /\ run_agent_start(t)
          /\ UNCHANGED extVars
    \/ \E t \in Turns :
          /\ run_agent_cancelled_unstarted(t)
          /\ UNCHANGED extVars
    \/ \E t \in Turns : \E evt \in BackendEvents :
          /\ TotalEvents(Len(tasks)) < MaxEvents
          /\ stream_event(t, evt)
          /\ UNCHANGED extVars
    \/ \E t \in Turns :
          /\ stream_raises(t)
          /\ UNCHANGED extVars
    \/ \E t \in Turns : \E meta \in MetaOutcomes :
          /\ stream_finished(t, meta)
          /\ UNCHANGED extVars
    \/ \E t \in Turns : \E res \in ListOutcomes :
          /\ list_sessions_returns(t, res)
          /\ UNCHANGED extVars
    \/ \E t \in Turns : \E res \in SaveOutcomes :
          /\ get_session_returns(t, res)
          /\ UNCHANGED extVars
    \/ \E t \in Turns :
          /\ run_agent_cancelled(t)
          /\ UNCHANGED extVars

SpecProducer == Init /\ [][NextProducer]_vars

\* One session whose handle is created by turns and destroyed by calls
\* that may overlap: a call is made while the stop of an earlier one is
\* still suspended.
NextDestroy ==
    \/ /\ Len(buffers) < MaxTurns
       /\ ~has_active_response("s1")
       /\ pool_send_message("s1")
    \/ \E t \in Turns : get_session_client(t)
    \/ \E t \in Turns : \E evt \in PoolEvents :
          /\ TotalEvents(Len(tasks)) < MaxEvents
          /\ pool_stream_event(t, evt)
    \/ \E t \in Turns :
          /\ stream_finished(t, "name_set")
          /\ UNCHANGED extVars
    \/ /\ Len(script.done) < MaxDestroys
       /\ destroy_session_client_called("s1")
    \/ \E op \in stopping : destroy_session_client_returns(op)

SpecDestroy == InitPool /\ [][NextDestroy]_vars

\* Two sessions whose handles are swept and, at any moment, shut down,
\* every stop ending with or without an error.
NextTeardown ==
    \/ \E s \in PoolSessions :
          /\ Len(buffers) < MaxTurns
          /\ ~has_active_response(s)
          /\ pool_send_message(s)
    \/ \E t \in Turns : get_session_client(t)
    \/ \E t \in Turns :
          /\ stream_finished(t, "name_set")
          /\ UNCHANGED extVars
    \/ time_passes
    \/ cleanup_idle_sessions
    \/ cleanup_idle_sessions_next
    \/ cleanup_idle_sessions_stop_raises
    \/ CopilotService_stop
    \/ CopilotService_stop_acquires
    \/ \E raised \in BOOLEAN : CopilotService_stop_next(raised)

SpecTeardown == InitPool /\ [][NextTeardown]_vars

\* One backend event for each add_* of the buffer.
AppendEvents ==
    {evt \in BackendEvents :
        evt.event = "delta" => evt.data = <<"a">>}
    \ [event : {"turn_done"}, data : {<< >>}]

\* Every writer of a buffer: a headless submission that streams, fails,
\* times out and is aborted, and interactive turns on its session that
\* supersede one another and are removed.
NextAppend ==
    \/ /\ Len(runs) < 1
       /\ submit_run
       /\ UNCHANGED <<poolVars, auxVars, lateVars>>
    \/ \E r \in RunIds :
          /\ execute_run_start(r, "created")
          /\ UNCHANGED <<poolVars, auxVars, lateVars>>
    \/ \E r \in RunIds : \E evt \in AppendEvents :
          /\ TotalEvents(Len(tasks)) < MaxEvents
          /\ run_stream_event(r, evt)
          /\ UNCHANGED <<poolVars, auxVars, lateVars>>
    \/ \E r \in RunIds :
          /\ run_stream_finished(r)
          /\ UNCHANGED <<poolVars, auxVars, lateVars>>
    \/ \E r \in RunIds :
          /\ run_stream_raises(r)
          /\ UNCHANGED <<poolVars, auxVars, lateVars>>
    \/ \E r \in RunIds :
          /\ execute_run_times_out(r)
          /\ UNCHANGED <<poolVars, auxVars, lateVars>>
    \/ \E r \in RunIds :
          /\ execute_run_cancelled(r)
          /\ UNCHANGED <<poolVars, auxVars, lateVars>>
    \/ \E r \in RunIds :
          /\ execute_run_cleanup(r)
          /\ UNCHANGED <<poolVars, auxVars, lateVars>>
    \/ \E r \in RunIds :
          /\ execute_run_cleanup_cancelled(r)
          /\ UNCHANGED <<poolVars, auxVars, lateVars>>
    \/ \E id \in 1..Len(runs) :
          /\ Len(abort_calls) < MaxAborts
          /\ abort_run(id)
          /\ UNCHANGED <<poolVars, auxVars, lateVars>>
    \/ \E r \in RunIds :
          /\ runs[r].session_id # ""
          /\ Cardinality({t \in Turns : Interactive(t)}) < MaxTurns
          /\ send_message(runs[r].session_id)
          /\ UNCHANGED extVars
    \/ \E r \in RunIds :
          /\ runs[r].session_id # ""
          /\ remove_buffer(runs[r].session_id)
          /\ UNCHANGED extVars
    \/ \E t \in Turns :
          /\ run_agent_start(t)
          /\ UNCHANGED extVars
    \/ \E t \in Turns :
          /\ run_agent_cancelled_unstarted(t)
          /\ UNCHANGED extVars
    \/ \E t \in Turns : \E evt \in AppendEvents :
          /\ TotalEvents(Len(tasks)) < MaxEvents
          /\ stream_event(t, evt)
          /\ UNCHANGED extVars
    \/ \E t \in Turns :
          /\ stream_raises(t)
          /\ UNCHANGED extVars
    \/ \E t \in Turns :
          /\ stream_finished(t, "name_set")
          /\ UNCHANGED extVars
    \/ \E t \in Turns :
          /\ run_agent_cancelled(t)
          /\ UNCHANGED extVars

SpecAppend == InitRunner(1) /\ [][NextAppend]_vars

\* Bound of the update specification: fields supplied by one request.
MaxSupplied == 2

FieldValues == {"x", "y"}

\* PATCH /{session_id} bodies with at most MaxSupplied fields.
Requests ==
    {req \in [name : FieldValues \cup {None},
              cwd : Directories \cup {None},
              mcp_servers : FieldValues \cup {None},
              tools : FieldValues \cup {None},
              system_message : FieldValues \cup {None},
              sub_agents : FieldValues \cup {None}] :
        Cardinality({f \in DOMAIN req : req[f] # None}) <= MaxSupplied}

\* One session: turns that create and recreate its handle, and updates of
\* its stored metadata between and during them.  The client sends one
\* PATCH at a time.
NextUpdate ==
    \/ /\ Len(buffers) < MaxTurns
       /\ ~has_active_response("s1")
       /\ pool_send_message("s1")
    \/ \E t \in Turns : get_session_client(t)
    \/ \E t \in Turns : get_session_client_recreated(t)
    \/ \E t \in Turns :
          /\ stream_finished(t, "name_set")
          /\ UNCHANGED extVars
    \/ \E req \in Requests :
          /\ stopping = {}
          /\ update_session("s1", req)
    \/ \E op \in stopping : destroy_session_client_returns(op)

SpecUpdate == InitPool /\ [][NextUpdate]_vars

\* ------------------------------------------------------ claim helpers
IsDelta(e) == e.event = "delta"
IsStep(e) == e.event = "step"
IsTerminal(e) == e.event \in {"done", "error"}

DeltasOf(out) == SelectSeq(out, IsDelta)
TerminalsOf(out) == SelectSeq(out, IsTerminal)

RECURSIVE DataOf(_)
DataOf(evs) ==
    IF evs = << >> THEN << >> ELSE <<Head(evs).data>> \o DataOf(Tail(evs))

Ended(r) == relays[r].phase = "ended"
Attached(r) == relays[r].phase \notin {"ended", "disconnected"}
BufOf(r) == buffers[relays[r].buf]

\* ----------------------------------------------------------------- C1
\* C1: for every conversation id at most one buffer created for it is
\* RUNNING at any instant (a superseded buffer counts until its task has
\* handled the cancellation), and the registry holds only the newest.
C1_AtMostOneRunning ==
    \A s \in Sessions :
        /\ Cardinality({b \in Turns : /\ buffers[b].session_id = s
                                      /\ buffers[b].status = "running"}) <= 1
        /\ mgr_buffers[s] \in {0, Len(buffers)}

\* ----------------------------------------------------------------- C2
\* C2: a relay that has emitted its terminal event has delivered every
\* chunk and every step of the buffer.
C2_TerminalOnlyWhenDrained ==
    \A r \in Relays :
        Ended(r) =>
            /\ relays[r].chunks_sent = Len(BufOf(r).chunks)
            /\ relays[r].steps_sent = Len(BufOf(r).steps)

\* ----------------------------------------------------------------- C3
\* C3: two relays attached at cursor 0 to the same buffer before it
\* completes have, once both ended, each delivered exactly the buffer's
\* chunks in append order.
C3_TwoRelaysSeeEveryChunk ==
    \A r, q \in Relays :
        ( /\ r # q /\ relays[r].buf = relays[q].buf
          /\ Ended(r) /\ Ended(q)
          /\ relays[r].attached_status = "running"
          /\ relays[q].attached_status = "running"
          /\ relays[r].from_chunk = 0 /\ relays[q].from_chunk = 0 )
        => /\ DataOf(DeltasOf(relays[r].out)) = BufOf(r).chunks
           /\ DataOf(DeltasOf(relays[q].out)) = BufOf(q).chunks

\* ----------------------------------------------------------------- C4
\* C4: a relay never emits two terminal events nor anything after one,
\* and under fair scheduling every relay that stays attached emits one.
C4_ExactlyOneTerminal ==
    /\ [](\A r \in Relays :
            /\ Len(TerminalsOf(relays[r].out)) <= 1
            /\ Ended(r) <=> Len(TerminalsOf(relays[r].out)) = 1)
    /\ \A r \in RelayIds :
          (r \in Relays) ~> (r \in Relays /\ ~Attached(r))

\* ----------------------------------------------------------------- C5
\* C5: over the life of a buffer complete()/fail() is called at most once
\* in total, and a terminal status never changes afterwards.
C5_TerminalSetOnce ==
    [][\A b \in Turns :
          /\ termCalls'[b] <= 1
          /\ buffers[b].status # "running"
                => buffers'[b].status = buffers[b].status]_vars

\* ----------------------------------------------------------------- C6
\* C6: whenever a runner task has finished, its buffer is not RUNNING.
C6_FinishedTaskBufferTerminal ==
    \A t \in Turns :
        tasks[t].pc = "done" => buffers[t].status # "running"

\* ----------------------------------------------------------------- C7
\* C7: a relay attached at cursor 0 after the buffer completed delivers
\* the same event sequence, terminal event included, as a relay attached
\* from the start of the turn.
C7_LateReplayIdentical ==
    \A r, q \in Relays :
        ( /\ relays[r].buf = relays[q].buf
          /\ relays[r].kind = "send" /\ Ended(r)
          /\ relays[q].attached_status = "completed" /\ Ended(q)
          /\ relays[q].from_chunk = 0 /\ relays[q].from_step = 0 )
        => relays[q].out = relays[r].out

\* ----------------------------------------------------------------- C8
\* C8: a relay reattached with chunk cursor k that has ended delivered
\* exactly the chunks of index >= k, each once and in order.
C8_ReattachDeliversSuffix ==
    \A r \in Relays :
        (relays[r].kind = "resume" /\ Ended(r))
        => DataOf(DeltasOf(relays[r].out))
             = SubSeq(BufOf(r).chunks, relays[r].from_chunk + 1,
                      Len(BufOf(r).chunks))

C10_DoneCarriesTitle ==
    /\ \A b \in Turns :
          buffers[b].updated_session_name # ""
              => buffers[b].status # "running"
    /\ \A r \in Relays :
          ( /\ Ended(r)
            /\ BufOf(r).updated_session_name # ""
            /\ relays[r].out[Len(relays[r].out)].event = "done" )
          => relays[r].out[Len(relays[r].out)].data
                = <<BufOf(r).updated_session_name>>


\* C11: when a runner task receives a cancellation, fail is invoked on its
\* buffer exactly once and the cancellation is propagated, so the task ends
\* in the cancelled state (not as a normal return).  Stated for tasks that
\* had started running (a task cancelled before its first step is C6).
C11_CancelFailsOncePropagates ==
    [][\A t \in Turns :
        (tasks[t].must_cancel /\ tasks[t].pc \notin {"created", "done"}
            /\ tasks'[t].pc = "done")
        => /\ termCalls'[t] = termCalls[t] + 1
           /\ buffers'[t].error = "Task was cancelled"
           /\ tasks'[t].outcome = "cancelled"]_vars

\* ----------------------------------------------------------------- C12
\* C12: for every configured limit N, the number of submissions whose
\* recorded status is RUNNING never exceeds N.
C12_RunningWithinLimit ==
    Cardinality({r \in RunIds : stored[r].status = "running"})
        <= max_concurrent

\* ----------------------------------------------------------------- C13
\* C13: a submission's recorded status only moves forward along PENDING,
\* RUNNING, terminal; once the stored record holds a terminal status no
\* later write changes it to a different status.
StatusRank(st) ==
    CASE st = "pending" -> 0
      [] st = "running" -> 1
      [] OTHER -> 2

C13_StatusForwardOnly ==
    [][\A r \in RunIds :
        /\ StatusRank(stored'[r].status) >= StatusRank(stored[r].status)
        /\ stored[r].status \in TerminalStatus
             => stored'[r].status = stored[r].status]_vars

\* ----------------------------------------------------------------- C14
\* C14: when the deadline of a submission passes, the runner is cancelled
\* (it fails the buffer once, with the cancellation reason), the status
\* becomes TIMED_OUT in memory and on disk, the buffer is and stays
\* terminal, and the output is the concatenation of exactly the chunks
\* appended before the timeout.
C14_TimeoutKeepsPartialOutput ==
    [][\A r \in RunIds :
        LET b == runs'[r].buf
        IN  /\ (runs[r].status # "timed_out"
                  /\ runs'[r].status = "timed_out")
               => /\ runs[r].pc = "streaming"
                  /\ termCalls'[b] = termCalls[b] + 1
                  /\ buffers'[b].error = "Task was cancelled"
                  /\ buffers'[b].chunks = buffers[b].chunks
                  /\ runs'[r].output = Join(buffers[b].chunks)
                  /\ stored'[r].status = "timed_out"
                  /\ stored'[r].output = runs'[r].output
            /\ runs'[r].status = "timed_out"
               => /\ buffers'[b].status = "error"
                  /\ runs'[r].output = get_full_content(buffers'[b])]_vars

C14_Witness ==
    \E r \in RunIds :
        /\ runs[r].status = "timed_out"
        /\ Len(buffers[runs[r].buf].chunks) = 2
        /\ runs[r].output = <<"a", "a">>

\* ----------------------------------------------------------------- C15
\* C15: with limit 1 and ScenarioJobs submissions whose turns end
\* normally, executions never overlap (at most one submission is inside
\* the guarded block or recorded RUNNING at any time) and, under fair
\* scheduling, once all are submitted all of them reach COMPLETED.
Executing(r) == runs[r].pc \in {"streaming", "cleanup"}

C15_SequentialAndComplete ==
    /\ [](/\ Cardinality({r \in RunIds : Executing(r) \/ runs[r].holds}) <= 1
          /\ Cardinality({r \in RunIds : stored[r].status = "running"}) <= 1
          /\ \A r \in RunIds :
                stored[r].status = "running"
                  => \A q \in RunIds \ {r} :
                        stored[q].status \in {"pending", "completed"})
    /\ (Len(runs) = ScenarioJobs)
          ~> (\A r \in RunIds :
                 stored[r].status = "completed" /\ runs[r].pc = "done")

C15_Witness ==
    /\ Len(runs) = ScenarioJobs
    /\ \A r \in RunIds : stored[r].status = "completed" /\ runs[r].pc = "done"
    /\ \E r \in RunIds : buffers[runs[r].buf].chunks # << >>

\* ----------------------------------------------------------------- C16
\* C16: abort_run on a submission recorded PENDING or RUNNING returns
\* true, cancels its execution and leaves the record ABORTED; an aborted
\* record stays ABORTED, the submission acquires no slot afterwards and
\* holds none once its task has ended; abort_run on an unknown or
\* already finished (terminal) submission returns false and changes no
\* record.  Stated for aborts of submissions whose create_session did not
\* raise (a record left RUNNING by that failure is C12).
AbortCalled == Len(abort_calls') = Len(abort_calls) + 1

C16_AbortContract ==
    [][/\ (AbortCalled /\ \A r \in RunIds : runs[r].outcome # "raised") =>
            LET call == abort_calls'[Len(abort_calls')]
            IN  IF call.id \in RunIds
                     /\ stored[call.id].status \in {"pending", "running"}
                  THEN /\ call.ret
                       /\ runs'[call.id].must_cancel
                       /\ stored'[call.id].status = "aborted"
                  ELSE /\ ~call.ret
                       /\ stored' = stored
                       /\ runs' = runs
       /\ \A r \in RunIds :
             stored[r].status = "aborted"
               => /\ stored'[r].status = "aborted"
                  /\ ~runs[r].holds => ~runs'[r].holds
                  /\ runs'[r].pc = "done" => ~runs'[r].holds]_vars

\* ----------------------------------------------------------------- C17
\* C17: every submission has a conversation key of its own, and no step
\* of a submission replaces or removes a registered buffer of an
\* interactive turn, or unregisters or cancels an interactive runner task.
C17_HeadlessLeavesInteractiveAlone ==
    [][/\ \A r, q \in RunIds :
             (r # q /\ runs[r].session_id # "")
               => runs[r].session_id # runs[q].session_id
       /\ \A r \in RunIds :
             runs'[r] # runs[r]
               => \A s \in AllSessions :
                     /\ (mgr_buffers[s] # 0
                           /\ Interactive(mgr_buffers[s]))
                        => mgr_buffers'[s] = mgr_buffers[s]
                     /\ mgr_tasks[s] # 0
                        => /\ mgr_tasks'[s] = mgr_tasks[s]
                           /\ tasks'[mgr_tasks[s]] = tasks[mgr_tasks[s]]]_vars

\* ----------------------------------------------------------------- C18
\* C18: when a sweep has gone through its list, no handle it found older
\* than the idle threshold is still in the pool; and no step of the sweep
\* takes out of the pool a handle that was touched in every sweep period
\* since it was created.
C18_SweepEvictsOnlyIdle ==
    [][sweep' # sweep
         => /\ sweep'.pc = "sleep"
                 => \A h \in sweep'.collected :
                       clients'[handles[h].session_id] # h
            /\ \A s \in PoolSessions :
                  (clients[s] # 0 /\ clients'[s] = 0)
                    => ~handles[clients[s]].fresh]_vars

\* ----------------------------------------------------------------- C19
\* C19: no step of the idle sweep takes out of the pool the handle of a
\* session whose buffer is RUNNING.
C19_SweepSparesActiveTurn ==
    [][sweep' # sweep
         => \A s \in PoolSessions :
               (clients[s] # 0 /\ has_active_response(s))
                 => clients'[s] = clients[s]]_vars

\* ----------------------------------------------------------------- C20
\* Handles whose stop() has been entered and has not returned yet.
StopInFlight ==
    {op.h : op \in stopping}
      \cup (IF sweep.pc = "stopping" THEN {sweep.h} ELSE {})
      \cup (IF lock > 0 THEN {clients[buffers[lock].session_id]} ELSE {})

SavedBy(sid, op) ==
    IF op.after.sid = sid
      THEN [cwd |-> op.after.cwd, meta |-> op.after.meta]
      ELSE [cwd |-> session_cwd[sid], meta |-> session_meta[sid]]

\* ...differs from the stored session in a configuration field.
ConfigDiffers(sid, saved) ==
    \/ saved.cwd # session_cwd[sid]
    \/ \E f \in MetaConfigFields : saved.meta[f] # session_meta[sid][f]

\* C21: an update_session of a session that has a handle in the pool
\* takes the handle out of the pool exactly when the request supplies a
\* configuration field (cwd, mcp_servers, tools, system_message,
\* sub_agents) with a value different from the stored one; a name-only
\* update or one that supplies the stored values leaves it there.
C21_UpdateRemovesIffConfigDiffers ==
    [][is_session_active("s1")
         => /\ clients'["s1"] = 0
                 => \/ \E op \in stopping' \ stopping :
                          ConfigDiffers("s1", SavedBy("s1", op))
                    \/ /\ stopping' = stopping
                       /\ ConfigDiffers("s1",
                             [cwd |-> session_cwd'["s1"],
                              meta |-> session_meta'["s1"]])
            /\ (clients'["s1"] = clients["s1"] /\ stopping' = stopping)
                 => ~ConfigDiffers("s1",
                       [cwd |-> session_cwd'["s1"],
                        meta |-> session_meta'["s1"]])]_vars

\* An update that changed mcp_servers only has taken the first handle out
\* of the pool, stopped it and saved the new value.
C21_Witness ==
    /\ Len(handles) = 1
    /\ clients["s1"] = 0
    /\ handles[1].teardowns = 1
    /\ session_cwd["s1"] = "/a"
    /\ session_meta["s1"] = [StoredMeta EXCEPT !.mcp_servers = "y"]

\* ----------------------------------------------------------------- C22
\* C22: at every instant at most one SessionClient of a session id has
\* started = TRUE.
C22_OneStartedHandle ==
    \A s \in PoolSessions :
       Cardinality({h \in 1..Len(handles) :
                       handles[h].session_id = s /\ handles[h].started}) <= 1

\* ----------------------------------------------------------------- C23
\* C23: no buffer exists for a turn whose handle could not be obtained or
\* started.
C23_NoBufferWithoutHandle ==
    \A t \in Turns :
       ~(turn_client[t].h = 0 /\ buffers[t].error = BackendUnavailable)

\* ----------------------------------------------------------------- C24
\* C24: a disconnect never removes from the pool the handle of a
\* conversation whose buffer is RUNNING at the moment of the removal.
C24_DisconnectSparesRunning ==
    [][(clients["s1"] # 0 /\ clients'["s1"] = 0)
         => ~has_active_response("s1")]_vars

\* ----------------------------------------------------------------- C25
\* C25: the GC sweep removes a buffer only if the buffer is terminal and
\* older than the TTL when it is removed, and cancels no task but the one
\* registered with a buffer it removes.
GcRemoved(sid) == mgr_buffers[sid] # 0 /\ mgr_buffers'[sid] = 0

C25_GcRemovesOnlyStale ==
    [][(\E sid \in AllSessions : GcRemoved(sid))
         => /\ \A sid \in AllSessions :
                 GcRemoved(sid)
                   => /\ buffers[mgr_buffers[sid]].status # "running"
                      /\ buffers[mgr_buffers[sid]].age > BufferTtlSeconds
            /\ \A sid \in AllSessions :
                 mgr_buffers[sid] # 0
                 /\ buffers[mgr_buffers[sid]].status = "running"
                   => /\ mgr_buffers'[sid] = mgr_buffers[sid]
                      /\ mgr_tasks'[sid] = mgr_tasks[sid]
            /\ \A t \in 1..Len(tasks) :
                 tasks'[t] # tasks[t]
                   => /\ GcRemoved(buffers[t].session_id)
                      /\ mgr_buffers[buffers[t].session_id] = t]_vars

\* A buffer older than the TTL has been swept while another conversation's
\* turn is still running and registered.
C25_Witness ==
    \E b, r \in 1..Len(buffers) :
       /\ buffers[b].age > BufferTtlSeconds
       /\ mgr_buffers[buffers[b].session_id] = 0
       /\ buffers[r].status = "running"
       /\ mgr_buffers[buffers[r].session_id] = r

\* ----------------------------------------------------------------- C26
\* C26: the pool lock is free at every suspension point: no start or stop
\* of a handle is awaited while it is held.
C26_LockFreeAtEveryAwait == lock = 0

\* ----------------------------------------------------------------- C27
\* C27: no wakeup is lost: a relay that leaves a yield and enters
\* wait_for_update, clearing the event, has read everything the producer
\* had put into the buffer by then.
Unread(rel, buf) ==
    \/ rel.chunks_sent < Len(buf.chunks)
    \/ rel.steps_sent < Len(buf.steps)
    \/ /\ rel.kind = "send"
       /\ \/ rel.notifications_sent < Len(buf.notifications)
          \/ buf.usage_info # << >> /\ ~rel.usage_info_sent

C27_NoLostWakeup ==
    [][\A r \in Relays :
          (Suspended(relays[r]) /\ relays'[r].phase = "wait")
            => ~Unread(relays'[r], buffers'[relays[r].buf])]_vars

\* ----------------------------------------------------------------- C28
\* C28: has_active_response(id) and get_status(id).active hold exactly
\* when a RUNNING buffer is registered for id; get_status of an id without
\* buffer is {active: false}; get_active_count is the number of
\* registered RUNNING buffers.
RegisteredRunning ==
    {b \in 1..Len(buffers) :
        /\ mgr_buffers[buffers[b].session_id] = b
        /\ buffers[b].status = "running"}

C28_StatusQueriesAgree ==
    /\ \A sid \in DOMAIN mgr_buffers :
          LET running == \E b \in RegisteredRunning :
                            buffers[b].session_id = sid
          IN  /\ has_active_response(sid) <=> running
              /\ get_status(sid).active <=> running
              /\ (\A b \in 1..Len(buffers) : mgr_buffers[sid] # b)
                    => get_status(sid) = [active |-> FALSE]
    /\ get_active_count = Cardinality(RegisteredRunning)

\* One conversation's buffer is RUNNING, the other's has failed, and a
\* third buffer has been swept.
C28_Witness ==
    /\ get_active_count = 1
    /\ \E sid \in DOMAIN mgr_buffers :
          /\ mgr_buffers[sid] # 0
          /\ get_status(sid).status = "error"
    /\ \E b \in 1..Len(buffers) :
          /\ buffers[b].age > BufferTtlSeconds
          /\ mgr_buffers[buffers[b].session_id] # b

\* ----------------------------------------------------------------- C29
\* C29: after k add_chunk calls and complete(), chunks holds exactly the k
\* chunks in call order and get_full_content() is their concatenation.
RECURSIVE ConcatFirst(_, _)
ConcatFirst(seq, n) ==
    IF n = 0 THEN << >> ELSE ConcatFirst(seq, n - 1) \o seq[n]

C29_FullContentIsConcatenation ==
    (script.todo = << >> /\ buffers[1].status = "completed")
      => /\ buffers[1].chunks = script.done
         /\ get_full_content(buffers[1])
              = ConcatFirst(script.done, Len(script.done))

\* MaxChunks chunks, not all equal and one of them empty, then complete().
C29_Witness ==
    /\ buffers[1].status = "completed"
    /\ Len(script.done) = MaxChunks
    /\ script.done[1] # script.done[2]
    /\ \E i \in 1..Len(script.done) : script.done[i] = << >>

\* ----------------------------------------------------------------- C30
\* C30: a step in which complete() or fail() is called on a buffer leaves
\* its chunks, steps, usage and notifications as they were, and a started
\* turn that is cancelled ends with status error and an error recorded.
Produced(buf) ==
    [session_id |-> buf.session_id, chunks |-> buf.chunks,
     steps |-> buf.steps, usage_info |-> buf.usage_info,
     notifications |-> buf.notifications,
     content |-> get_full_content(buf)]

C30_CancelKeepsContent ==
    [][\A t \in Turns :
          /\ termCalls'[t] > termCalls[t]
                => /\ Produced(buffers'[t]) = Produced(buffers[t])
                   /\ buffers'[t].status \in {"completed", "error"}
          /\ (tasks[t].must_cancel /\ tasks[t].pc # "created"
                /\ tasks'[t].pc = "done")
                => /\ buffers'[t].status = "error"
                   /\ buffers'[t].error # ""
                   /\ Produced(buffers'[t]) = Produced(buffers[t])]_vars

\* A turn cancelled after its first chunk: terminal, error recorded, the
\* chunk still there.
C30_Witness ==
    \E t \in Turns :
       /\ tasks[t].pc = "done"
       /\ buffers[t].status = "error"
       /\ buffers[t].error = "Task was cancelled"
       /\ Len(buffers[t].chunks) = 1
       /\ get_full_content(buffers[t]) # << >>

\* ----------------------------------------------------------------- C31
\* C31: destroy_session_client is idempotent: a call without a handle
\* changes nothing in the pool, every call leaves the session without
\* handle, and no handle is stopped more than once.
C31_DestroyIdempotent ==
    [][script'.done # script.done
         => /\ clients'["s1"] = 0
            /\ clients["s1"] = 0
                 => /\ clients' = clients /\ handles' = handles
                    /\ stopping' = stopping
            /\ \A h \in 1..Len(handles') : handles'[h].stop_calls <= 1]_vars

\* Two calls have been made while the stop started by the first one is
\* still suspended.
C31_Witness ==
    /\ Len(script.done) = 2
    /\ clients["s1"] = 0
    /\ \E op \in stopping :
          /\ handles[op.h].stop_calls = 1
          /\ handles[op.h].teardowns = 0
    /\ Len(handles) = 1

C32_ShutdownWitness ==
    /\ shutdown.pc = "stopped"
    /\ Cardinality(shutdown.pool) = 2
    /\ \E h \in shutdown.pool : handles[h].failed
    /\ \E h \in shutdown.pool : ~handles[h].failed /\ handles[h].teardowns = 1

\* ----------------------------------------------------------------- C33
\* C33: whatever is appended or written to a buffer is written while its
\* status is RUNNING: no step changes the chunks, steps, usage or
\* notifications of a COMPLETED or ERROR buffer.
C33_NoAppendAfterTerminal ==
    [][\A t \in 1..Len(buffers) :
          Produced(buffers'[t]) # Produced(buffers[t])
            => buffers[t].status = "running"]_vars

\* A writer that had produced output was cancelled: its buffer is in
\* status error and its task has ended.
C33_Witness ==
    \E t \in 1..Len(buffers) :
       /\ buffers[t].status = "error"
       /\ buffers[t].error = "Task was cancelled"
       /\ Len(buffers[t].chunks) + Len(buffers[t].steps) >= 1
       /\ termCalls[t] >= 1
       /\ tasks[t].pc = "done"


\* ----------------------------------------------------------------- C34
\* C34: every handle a step of the idle sweep takes out of the pool is
\* older than the idle threshold in the state the step starts from.
C34_SweepDestroysOnlyIdleNow ==
    [][sweep' # sweep
         => \A s \in PoolSessions :
               (clients[s] # 0 /\ clients'[s] = 0)
                 => handles[clients[s]].idle > IdleTimeoutSeconds]_vars


\* ----------------------------------------------------------------- C35
\* Token usage is reported by session.usage_info and again when a
\* compaction completes: two different snapshots in one turn.
UsageEvents ==
    [event : {"usage_info"}, data : {<<"u1">>, <<"u2">>}]
      \cup [event : {"delta"}, data : {<<"a">>}]

\* One turn with its attached relay; the backend reports usage more than
\* once.
NextUsage ==
    \/ \E s \in Sessions :
          /\ Len(buffers) < 1
          /\ send_message(s)
          /\ UNCHANGED extVars
    \/ \E t \in Turns :
          /\ run_agent_start(t)
          /\ UNCHANGED extVars
    \/ \E t \in Turns : \E evt \in UsageEvents :
          /\ TotalEvents(Len(tasks)) < DeepEvents
          /\ stream_event(t, evt)
          /\ UNCHANGED extVars
    \/ \E t \in Turns :
          /\ stream_raises(t)
          /\ UNCHANGED extVars
    \/ \E t \in Turns :
          /\ stream_finished(t, "name_set")
          /\ UNCHANGED extVars
    \/ \E r \in Relays :
          /\ relay_next(r)
          /\ UNCHANGED extVars
    \/ \E r \in Relays :
          /\ wait_for_update_signalled(r)
          /\ UNCHANGED extVars
    \/ \E r \in Relays :
          /\ wait_for_update_timeout(r)
          /\ UNCHANGED extVars

SpecUsage == Init /\ [][NextUsage]_vars

UsageSent(out) == {i \in 1..Len(out) : out[i].event = "usage_info"}

\* C35: a relay of the initial stream that has sent its terminal event has
\* sent, as its last usage_info event, the snapshot the buffer holds.
C35_NewerUsageRelayed ==
    \A r \in Relays :
       LET rel == relays[r]
           buf == buffers[rel.buf]
       IN  (/\ rel.kind = "send"
            /\ rel.out # << >>
            /\ rel.out[Len(rel.out)].event \in {"done", "error"}
            /\ buf.usage_info # << >>)
             => /\ UsageSent(rel.out) # {}
                /\ \E i \in UsageSent(rel.out) :
                      /\ \A j \in UsageSent(rel.out) : j <= i
                      /\ rel.out[i].data = buf.usage_info


\* ----------------------------------------------------------------- C36
\* C36: the step that ends the execution task of a submission that got a
\* session leaves no buffer in the registry and no handle in the pool
\* under that session's id.
C36_FinishedRunLeavesNothing ==
    [][\A r \in RunIds :
          (/\ runs[r].pc # "done"
           /\ runs'[r].pc = "done"
           /\ runs'[r].session_id # "")
            => /\ mgr_buffers'[runs'[r].session_id] = 0
               /\ clients'[runs'[r].session_id] = 0]_vars


\* ============================================ CopilotService.send_message
\* The generator behind every turn: on_event, called by the SDK for each
\* session event, fills event_queue; the generator takes the items out
\* and yields them to the loop of send_message_background.
MaxSdkEvents == 4

\* What the handler reads of an SDK event: its type, the text _get_text
\* finds, the prompt _format_tool_prompt would build, and the success and
\* post_compaction_tokens attributes of session.compaction_complete.
SdkEvent(type, text, prompt, success, post_tokens) ==
    [type |-> type, text |-> text, prompt |-> prompt, success |-> success,
     post_tokens |-> post_tokens]

\* A turn that compacts its context.
CompactionEvents ==
    {SdkEvent("assistant.message_delta", <<"a">>, << >>, FALSE, FALSE),
     SdkEvent("session.usage_info", << >>, << >>, FALSE, FALSE),
     SdkEvent("session.compaction_start", << >>, << >>, FALSE, FALSE),
     SdkEvent("session.idle", << >>, << >>, FALSE, FALSE)}
      \cup {SdkEvent("session.compaction_complete", << >>, << >>, ok, ok) :
               ok \in BOOLEAN}

\* A turn of one or more responses, each streamed or sent whole.
ResponseEvents ==
    {SdkEvent("assistant.message_delta", c, << >>, FALSE, FALSE) :
        c \in Contents}
      \cup {SdkEvent("assistant.message", c, p, FALSE, FALSE) :
               c \in Contents, p \in {<< >>, <<"q">>}}
      \cup {SdkEvent("session.idle", << >>, << >>, FALSE, FALSE)}

\* The sentinel None.
Sentinel == [event |-> "None", data |-> << >>]

\* event_queue.put_nowait(item).
put_nowait(st, item) ==
    [st EXCEPT !.event_queue = Append(@, item),
               !.enqueued = IF item = Sentinel THEN @ ELSE Append(@, item)]

_enqueue_step(st, title) == put_nowait(st, [event |-> "step", data |-> title])

_terminate_stream(st) == [put_nowait(st, Sentinel) EXCEPT !.done = TRUE]

\* on_event, branch assistant.message_delta.
on_message_delta(st, e) ==
    IF e.text # << >>
      THEN put_nowait([st EXCEPT !.full_response = Append(@, e.text)],
                      [event |-> "delta", data |-> e.text])
      ELSE st

\* A handler that forwards the final text whatever was streamed.
on_assistant_message_always_adds(st, e) ==
    LET content == IF StripIsEmpty(e.text) THEN e.prompt ELSE e.text
        st1 == IF ~StripIsEmpty(content)
                 THEN put_nowait(
                        [st EXCEPT !.full_response = Append(@, content)],
                        [event |-> "delta", data |-> content])
                 ELSE st
        st2 == IF st1.full_response # << >>
                 THEN put_nowait(st1, [event |-> "turn_done", data |-> << >>])
                 ELSE st1
    IN  [st2 EXCEPT !.full_response = << >>]

\* on_event, branch assistant.message: the per-response boundary.
on_assistant_message(st, e) ==
    LET content == IF StripIsEmpty(e.text) THEN e.prompt ELSE e.text
        st1 == IF st.full_response = << >> /\ ~StripIsEmpty(content)
                 THEN put_nowait(
                        [st EXCEPT !.full_response = Append(@, content)],
                        [event |-> "delta", data |-> content])
                 ELSE st
        st2 == IF st1.full_response # << >>
                 THEN put_nowait(st1, [event |-> "turn_done", data |-> << >>])
                 ELSE st1
    IN  [st2 EXCEPT !.full_response = << >>]

\* on_event, branch session.compaction_start.
on_compaction_start(st) ==
    _enqueue_step([st EXCEPT !.compacting = TRUE], <<"Compacting context">>)

\* on_event, branch session.compaction_complete.
on_compaction_complete(st, e) ==
    LET st1 == [st EXCEPT !.compacting = FALSE]
        st2 == IF e.success
                 THEN LET st3 == _enqueue_step(st1, <<"Context compacted">>)
                      IN  IF e.post_tokens /\ st3.last_token_limit
                            THEN put_nowait(st3, [event |-> "usage_info",
                                                  data |-> <<"u2">>])
                            ELSE st3
                 ELSE _enqueue_step(st1, <<"Compaction failed">>)
    IN  IF st2.idle_received THEN _terminate_stream(st2) ELSE st2

\* on_event, branch session.usage_info (token_limit and current_tokens
\* given).
on_usage_info(st) ==
    put_nowait([st EXCEPT !.last_token_limit = TRUE],
               [event |-> "usage_info", data |-> <<"u1">>])

\* An idle handler that ends the stream whatever the compaction does.
on_session_idle_terminates(st) ==
    _terminate_stream([st EXCEPT !.idle_received = TRUE])

\* on_event, branch session.idle.
on_session_idle(st) ==
    LET st1 == [st EXCEPT !.idle_received = TRUE]
    IN  IF st1.compacting THEN st1 ELSE _terminate_stream(st1)

on_event(st, e) ==
    LET st1 == [st EXCEPT !.log = Append(@, e)]
    IN  CASE e.type = "assistant.message_delta" -> on_message_delta(st1, e)
          [] e.type = "assistant.message" -> on_assistant_message(st1, e)
          [] e.type = "session.compaction_start" -> on_compaction_start(st1)
          [] e.type = "session.compaction_complete"
               -> on_compaction_complete(st1, e)
          [] e.type = "session.usage_info" -> on_usage_info(st1)
          [] e.type = "session.idle" -> on_session_idle(st1)
          [] OTHER -> st1

\* The items of a queue that the generator yields: all but the sentinel.
RECURSIVE Yieldable(_)
Yieldable(q) ==
    IF q = << >> THEN << >>
    ELSE IF Head(q) = Sentinel THEN Yieldable(Tail(q))
    ELSE <<Head(q)>> \o Yieldable(Tail(q))

\* The loop body of send_message_background applied to the yielded items.
RECURSIVE on_stream_events(_, _)
on_stream_events(buf, items) ==
    IF items = << >> THEN buf
    ELSE on_stream_events(on_stream_event(buf, Head(items)), Tail(items))

\* send_message up to the first `await asyncio.wait_for(event_queue.get())`
\* of turn t: the handler is registered and the prompt sent.
send_message_generator_start(t) ==
    /\ stream.pc = "idle"
    /\ tasks[t].pc = "streaming" /\ ~tasks[t].must_cancel
    /\ stream' = [NoStream EXCEPT !.pc = "get", !.turn = t]
    /\ UNCHANGED <<buffers, termCalls, mgr_buffers, mgr_tasks, tasks, relays,
                   runVars, poolVars, auxVars, shutdown>>

\* The SDK calls on_event while the generator is alive.
sdk_event(e) ==
    /\ stream.pc = "get"
    /\ Len(stream.log) < MaxSdkEvents
    /\ stream' = on_event(stream, e)
    /\ UNCHANGED <<buffers, termCalls, mgr_buffers, mgr_tasks, tasks, relays,
                   runVars, poolVars, auxVars, shutdown>>

\* event_queue.get() returns an item.  The sentinel breaks the loop; any
\* other item is yielded, the consumer handles it and the loop tests
\* done.  Once the loop is left the drain yields what is still queued and
\* the generator finishes: there is no await on that path.
generator_resume ==
    /\ stream.pc = "get" /\ stream.event_queue # << >>
    /\ tasks[stream.turn].pc = "streaming"
    /\ ~tasks[stream.turn].must_cancel
    /\ LET item  == Head(stream.event_queue)
           rest  == Tail(stream.event_queue)
           ends  == item = Sentinel \/ stream.done
           first == IF item = Sentinel THEN << >> ELSE <<item>>
           items == IF ends THEN first \o Yieldable(rest) ELSE first
       IN  /\ stream' = [stream EXCEPT
                           !.event_queue = IF ends THEN << >> ELSE rest,
                           !.yielded = @ \o items,
                           !.pc = IF ends THEN "finished" ELSE "get"]
           /\ buffers' = [buffers EXCEPT ![stream.turn] =
                            on_stream_events(@, items)]
           /\ tasks' = [tasks EXCEPT ![stream.turn].nevents = @ + Len(items)]
    /\ UNCHANGED <<termCalls, mgr_buffers, mgr_tasks, relays,
                   runVars, poolVars, auxVars, shutdown>>

\* One turn fed by the SDK events of the set `events`.
StreamStep(events) ==
    \/ /\ Len(buffers) < 1
       /\ send_message("s1")
       /\ UNCHANGED extVars
    \/ \E t \in Turns :
          /\ run_agent_start(t)
          /\ UNCHANGED extVars
    \/ \E t \in Turns : send_message_generator_start(t)
    \/ \E e \in events : sdk_event(e)
    \/ generator_resume
    \/ \E t \in Turns :
          /\ stream.pc = "finished" /\ stream.turn = t
          /\ stream_finished(t, "name_set")
          /\ UNCHANGED extVars

NextCompaction == StreamStep(CompactionEvents)

SpecCompaction == Init /\ [][NextCompaction]_vars

NextResponses == StreamStep(ResponseEvents)

SpecResponses == Init /\ [][NextResponses]_vars


\* ----------------------------------------------------------------- C37
IsPrefix(s, t) == Len(s) <= Len(t) /\ s = SubSeq(t, 1, Len(s))

\* C37: the step that ends the stream (sets done) leads to a state where
\* idle has been received and no compaction is running; when idle was
\* received earlier and the stream was kept open, that step is the
\* handling of session.compaction_complete; the generator yields the
\* enqueued items in their order, and the step in which it finishes leaves
\* the stream ended and every enqueued item yielded.
C37_StreamEndsAfterIdleAndCompaction ==
    [][/\ (~stream.done /\ stream'.done)
            => /\ stream'.idle_received /\ ~stream'.compacting
               /\ stream.idle_received
                    => stream'.log[Len(stream'.log)].type
                          = "session.compaction_complete"
       /\ IsPrefix(stream'.yielded, stream'.enqueued)
       /\ (stream.pc # "finished" /\ stream'.pc = "finished")
            => /\ stream'.done
               /\ stream'.yielded = stream'.enqueued]_vars

\* A stream has finished whose idle arrived during a compaction; items
\* were enqueued after the idle and all were yielded.
C37_Witness ==
    /\ stream.pc = "finished"
    /\ \E i \in 1..Len(stream.log) : \E j \in 1..Len(stream.log) :
          /\ i < j
          /\ stream.log[i].type = "session.idle"
          /\ stream.log[j].type = "session.compaction_complete"
          /\ \A k \in 1..i : stream.log[k].type # "session.compaction_complete"
    /\ Len(stream.yielded) >= 2
    /\ Len(buffers[stream.turn].steps) >= 2


\* ----------------------------------------------------------------- C38
IsMessage(e) == e.type = "assistant.message"
IsStreamedDelta(e) == e.type = "assistant.message_delta" /\ e.text # << >>
IsQueuedDelta(i) == i.event = "delta"
IsTurnDone(i) == i.event = "turn_done"

\* The SDK events of the response in progress: those received after the
\* last assistant.message.
RECURSIVE CurrentResponse(_)
CurrentResponse(log) ==
    IF log = << >> \/ IsMessage(log[Len(log)]) THEN << >>
    ELSE Append(CurrentResponse(SubSeq(log, 1, Len(log) - 1)), log[Len(log)])

WasStreamed(log) == SelectSeq(CurrentResponse(log), IsStreamedDelta) # << >>

\* The text an assistant.message carries: its content, or the prompt of
\* its tool request when the content is blank.
MessageText(e) == IF StripIsEmpty(e.text) THEN e.prompt ELSE e.text

\* C38: the handling of an assistant.message enqueues the message's text
\* exactly when it is not blank and no delta was streamed since the
\* previous assistant.message, then exactly one turn_done when the
\* response streamed a delta or had a text, and leaves the accumulator
\* empty; no other event enqueues a turn_done; and when the generator has
\* finished the buffer holds each enqueued text once and each turn_done
\* once.
C38_ResponseTextOnce ==
    [][/\ stream'.log # stream.log
            => LET e   == stream'.log[Len(stream'.log)]
                   new == SubSeq(stream'.enqueued, Len(stream.enqueued) + 1,
                                 Len(stream'.enqueued))
                   txt == MessageText(e)
                   has == ~StripIsEmpty(txt)
                   str == WasStreamed(stream.log)
               IN  IF IsMessage(e)
                     THEN /\ new =
                               (IF has /\ ~str
                                  THEN <<[event |-> "delta", data |-> txt]>>
                                  ELSE << >>)
                               \o (IF has \/ str
                                     THEN <<[event |-> "turn_done",
                                             data |-> << >>]>>
                                     ELSE << >>)
                          /\ stream'.full_response = << >>
                     ELSE SelectSeq(new, IsTurnDone) = << >>
       /\ stream'.pc = "finished"
            => LET buf    == buffers'[stream'.turn]
                   deltas == SelectSeq(stream'.enqueued, IsQueuedDelta)
                   dones  == SelectSeq(stream'.enqueued, IsTurnDone)
               IN  /\ buf.chunks = [i \in 1..Len(deltas) |-> deltas[i].data]
                   /\ Len(SelectSeq(buf.notifications, IsTurnDone))
                        = Len(dones)]_vars

\* A finished turn of two responses, one streamed and then closed by its
\* message, one sent whole: two chunks and two turn_done notifications.
C38_Witness ==
    /\ stream.pc = "finished"
    /\ \E j \in 2..Len(stream.log) :
          /\ IsMessage(stream.log[j]) /\ ~StripIsEmpty(stream.log[j].text)
          /\ IsStreamedDelta(stream.log[j - 1])
    /\ \E j \in 2..Len(stream.log) :
          /\ IsMessage(stream.log[j]) /\ ~StripIsEmpty(stream.log[j].text)
          /\ IsMessage(stream.log[j - 1])
    /\ Len(buffers[stream.turn].chunks) = 2
    /\ Len(SelectSeq(buffers[stream.turn].notifications, IsTurnDone)) = 2

====
